---- MODULE Spec2Model ----
(***************************************************************************)
(* FateAnotherRL inference server: the orchestrator loop of main.cpp with  *)
(* the rollout writer, the inference engine's default / LSTM behaviour,    *)
(* the terminal reward and the unit_target mask encoder.                   *)
(*                                                                         *)
(* Reward values are integers in units of 1/72000 (RUnit = 1.0), which     *)
(* keeps the divisions by 6 and 12 of the code exact.  Tensors are         *)
(* abstracted: an LSTM pair is the sequence of forward passes that         *)
(* produced it (<<>> is the zero pair of init_hidden), a mask row is the   *)
(* set of its true columns.                                                *)
(***************************************************************************)
EXTENDS Integers, Sequences, FiniteSets, TLC

\* ------------------------------------------------------------------
\* Bounds of the model
\* ------------------------------------------------------------------
MaxTick == 2
MaxBatch == 2
MaxCycles == 2
MaxEpisodeCycles == 4

\* ------------------------------------------------------------------
\* protocol.h / constants.h
\* ------------------------------------------------------------------
MAGIC == 64126
PROTO_VERSION == 1
MSG_STATE == 1
MSG_ACTION == 2
MSG_DONE == 3
MAX_UNITS == 12
MAX_EVENTS == 32
GRID_CELLS == 1200
EVT_KILL == 1
EVT_CREEP_KILL == 2
EVT_LEVEL_UP == 3
HeaderSize == 8
DonePacketSize == 16
EventSize == 8
GlobalStateSize == 28
UnitStateSize == 229
FIXED_SIZE == HeaderSize + GlobalStateSize + MAX_UNITS * UnitStateSize + 1

Agents == 0 .. (MAX_UNITS - 1)

hero_ids ==
  << "H000", "H001", "H002", "H03M", "H028", "H009",
     "H007", "H005", "H003", "H006", "H004", "H008" >>

HeroIdSet == {hero_ids[k] : k \in 1 .. 12}

discrete_heads ==
  << [name |-> "skill",         size |-> 8],
     [name |-> "unit_target",   size |-> 14],
     [name |-> "skill_levelup", size |-> 6],
     [name |-> "stat_upgrade",  size |-> 10],
     [name |-> "attribute",     size |-> 5],
     [name |-> "item_buy",      size |-> 17],
     [name |-> "item_use",      size |-> 7],
     [name |-> "seal_use",      size |-> 7],
     [name |-> "faire_send",    size |-> 6],
     [name |-> "faire_request", size |-> 6],
     [name |-> "faire_respond", size |-> 3] >>

NUM_DISCRETE_HEADS == 11

HeadNames == {discrete_heads[h].name : h \in 1 .. NUM_DISCRETE_HEADS}

HeadSizes ==
  [name \in HeadNames |->
     discrete_heads[CHOOSE h \in 1 .. NUM_DISCRETE_HEADS :
                      discrete_heads[h].name = name].size]

HeadSize(name) == HeadSizes[name]

\* mask_bit / mask_bit16 / mask_bit32: (mask >> bit) & 1
mask_bit(mask, bit) == ((mask \div (2 ^ bit)) % 2) = 1

\* RewardDefaults, in reward units
RUnit == 72000
win_reward == 10 * RUnit
lose_reward == (0 - 5) * RUnit
timeout_reward == (0 - 2) * RUnit

\* ------------------------------------------------------------------
\* STATE payloads (the decoded body of a STATE datagram)
\* ------------------------------------------------------------------
\* Packed mask fields of a unit, one per discrete head (protocol.h 126-136).
MaskFields(ut) ==
  [skill |-> 255, unit_target |-> ut, skill_levelup |-> 1, stat_upgrade |-> 1,
   attribute |-> 1, item_buy |-> 1, item_use |-> 1, seal_use |-> 1,
   faire_send |-> 1, faire_request |-> 1, faire_respond |-> 1]

\* Team 0 stands at x = 100*i, team 1 at x = 3000 - 500*j: every observer
\* sees the enemies in reverse offset order.
UnitStd(i) ==
  [hero_id |-> hero_ids[i + 1],
   x |-> IF i < 6 THEN 100 * i ELSE 3000 - 500 * (i - 6), y |-> 0,
   alive |-> 1, hp |-> 1000, max_hp |-> 1000, level |-> 1,
   skill_points |-> 0, visible_mask |-> 4095,
   mask |-> MaskFields(1472)]

\* A later snapshot: everybody moved 100 units, unit 1 reports the hero id
\* of unit 0, unit 7 an id without artifact, unit 9 is dead, unit 8 is
\* hidden from observer 0, unit 2 holds a skill point.
UnitAlt(i) ==
  [hero_id |-> IF i = 1 THEN "H000" ELSE IF i = 7 THEN "Hxxx" ELSE hero_ids[i + 1],
   x |-> 100 + (IF i < 6 THEN 100 * i ELSE 3000 - 500 * (i - 6)), y |-> 0,
   alive |-> IF i = 9 THEN 0 ELSE 1, hp |-> 1000, max_hp |-> 1000, level |-> 1,
   skill_points |-> IF i = 2 THEN 1 ELSE 0,
   visible_mask |-> IF i = 8 THEN 4094 ELSE 4095,
   mask |-> MaskFields(IF i = 3 THEN 0 ELSE 8192 + 512 + 64 + 1)]

PayloadNames == {"std", "alt"}

PayloadDef(p) ==
  IF p = "std"
  THEN [units |-> [i \in Agents |-> UnitStd(i)],
        global |-> [game_time |-> 0, score_team0 |-> 0, score_team1 |-> 0],
        num_events |-> 0, events |-> << >>, has_path |-> 0]
  ELSE [units |-> [i \in Agents |-> UnitAlt(i)],
        global |-> [game_time |-> 0, score_team0 |-> 1, score_team1 |-> 0],
        num_events |-> 1,
        events |-> << [type |-> EVT_KILL, killer_idx |-> 0, victim_idx |-> 9] >>,
        has_path |-> 1]

PayloadTable == [p \in PayloadNames |-> PayloadDef(p)]

Payload(p) == PayloadTable[p]

\* The content a client sends at a tick.
PayloadOfTick(t) == IF t % 2 = 1 THEN "std" ELSE "alt"

\* Length of a complete STATE datagram with this payload (protocol.h 191-196).
StateLen(p) ==
  FIXED_SIZE + Payload(p).num_events * EventSize + 1
  + (IF Payload(p).has_path = 1 THEN GRID_CELLS ELSE 0) + 2 * GRID_CELLS

\* ------------------------------------------------------------------
\* Datagrams
\* ------------------------------------------------------------------
\* Source IPs as inet_ntop prints them, one character per element.
IP1 == << "1", "0", ".", "0", ".", "0", ".", "1" >>
IP2 == << "1", "0", ".", "0", ".", "0", ".", "2" >>
IPs == {IP1, IP2}
StatePort == 50001
DonePort == 50002
send_port == 7778

Ticks == 1 .. MaxTick

\* std::to_string of a non-negative int
RECURSIVE to_string(_)
to_string(n) ==
  LET digit == << "0", "1", "2", "3", "4", "5", "6", "7", "8", "9" >>[(n % 10) + 1]
  IN  IF n < 10 THEN << digit >> ELSE to_string(n \div 10) \o << digit >>

\* recv_all: the source address formatted as "ip:port"
addr_str(ip, port) == ip \o << ":" >> \o to_string(port)

Dg(ip, port, len, magic, version, msg_type, tick, payload, winner, reason) ==
  [addr |-> addr_str(ip, port), len |-> len, magic |-> magic,
   version |-> version, msg_type |-> msg_type, tick |-> tick,
   payload |-> payload, winner |-> winner, reason |-> reason]

StateDg(ip, t) ==
  Dg(ip, StatePort, StateLen(PayloadOfTick(t)), MAGIC, PROTO_VERSION, MSG_STATE,
     t, PayloadOfTick(t), 0, 0)

\* A STATE with a valid header whose body stops inside the visibility planes.
TruncDg(ip, t) ==
  Dg(ip, StatePort, StateLen(PayloadOfTick(t)) - 1, MAGIC, PROTO_VERSION,
     MSG_STATE, t, PayloadOfTick(t), 0, 0)

DoneDg(ip, w, r) ==
  Dg(ip, DonePort, DonePacketSize, MAGIC, PROTO_VERSION, MSG_DONE, MaxTick, "", w, r)

\* A DONE header without the rest of the DonePacket.
ShortDoneDg(ip) ==
  Dg(ip, DonePort, HeaderSize, MAGIC, PROTO_VERSION, MSG_DONE, MaxTick, "", 0, 0)

\* Datagrams no branch of the classification accepts: shorter than a
\* header, wrong magic, wrong version, a message type the server never reads.
JunkDgs ==
  { Dg(IP1, StatePort, HeaderSize - 1, MAGIC, PROTO_VERSION, MSG_STATE, 1, "std", 0, 0),
    Dg(IP1, StatePort, StateLen("std"), MAGIC + 1, PROTO_VERSION, MSG_STATE, 1, "std", 0, 0),
    Dg(IP2, StatePort, StateLen("std"), MAGIC, PROTO_VERSION + 1, MSG_STATE, 1, "std", 0, 0),
    Dg(IP2, StatePort, StateLen("std"), MAGIC, PROTO_VERSION, MSG_ACTION, 1, "std", 0, 0) }

\* A STATE with a valid header and `len` bytes in all.
ShortStateDg(ip, t, len) ==
  Dg(ip, StatePort, len, MAGIC, PROTO_VERSION, MSG_STATE, t, PayloadOfTick(t), 0, 0)

\* Lengths at which a STATE with payload p stops short: inside the fixed
\* part, inside the events, before the has_pathability flag, inside the
\* pathability plane, inside either visibility plane.
ShortLens(p) ==
  LET ev == FIXED_SIZE + Payload(p).num_events * EventSize
      pa == ev + 1 + (IF Payload(p).has_path = 1 THEN GRID_CELLS ELSE 0)
  IN  {FIXED_SIZE - 1, ev - 1, ev, pa - 1, pa + GRID_CELLS - 1, pa + 2 * GRID_CELLS - 1}

\* Traffic with rejected datagrams: one client sends whole STATEs and a
\* DONE, the other a whole STATE and STATEs that stop short.
RejectDatagrams ==
  {StateDg(IP1, t) : t \in Ticks} \cup {DoneDg(IP1, 0, 1), StateDg(IP2, 1)}
  \cup {ShortStateDg(IP2, 2, len) : len \in ShortLens(PayloadOfTick(2))}
  \cup JunkDgs

RejectBatches == UNION {[1 .. n -> RejectDatagrams] : n \in 0 .. MaxBatch}

\* Mixed traffic of two clients.
Datagrams ==
  {StateDg(IP1, t) : t \in Ticks}
  \cup {TruncDg(IP1, MaxTick), DoneDg(IP1, 0, 3), ShortDoneDg(IP1)}
  \cup {StateDg(IP2, 1), DoneDg(IP2, 2, 2)}
  \cup JunkDgs

Batches == UNION {[1 .. n -> Datagrams] : n \in 0 .. MaxBatch}

\* One client stepping through its episodes, at most one datagram per
\* drain cycle.
EpisodeDatagrams ==
  {StateDg(IP1, t) : t \in Ticks} \cup {DoneDg(IP1, 1, 1)}

EpisodeBatches == {<< >>} \cup {<< d >> : d \in EpisodeDatagrams}

\* ------------------------------------------------------------------
\* state_encoder::parse_packet
\* ------------------------------------------------------------------
\* The length checks of parse_packet, in the order of the code; the result
\* is ok = FALSE at the first shortfall.
parse_packet(d) ==
  LET pl == IF d.len < FIXED_SIZE THEN Payload("std") ELSE Payload(d.payload)
      num_events == IF pl.num_events > MAX_EVENTS THEN MAX_EVENTS ELSE pl.num_events
      off1 == FIXED_SIZE + num_events * EventSize
      off2 == off1 + 1
      off3 == IF pl.has_path = 1 THEN off2 + GRID_CELLS ELSE off2
      off4 == off3 + GRID_CELLS
      off5 == off4 + GRID_CELLS
  IN  IF d.len < FIXED_SIZE THEN [ok |-> FALSE]
      ELSE IF d.magic # MAGIC THEN [ok |-> FALSE]
      ELSE IF d.version # PROTO_VERSION THEN [ok |-> FALSE]
      ELSE IF d.msg_type # MSG_STATE THEN [ok |-> FALSE]
      ELSE IF off1 > d.len THEN [ok |-> FALSE]
      ELSE IF off2 > d.len THEN [ok |-> FALSE]
      ELSE IF pl.has_path = 1 /\ off3 > d.len THEN [ok |-> FALSE]
      ELSE IF off4 > d.len THEN [ok |-> FALSE]
      ELSE IF off5 > d.len THEN [ok |-> FALSE]
      ELSE [ok |-> TRUE, payload |-> d.payload, tick |-> d.tick, units |-> pl.units,
            global |-> pl.global,
            events |-> SubSeq(pl.events, 1, num_events)]

\* ------------------------------------------------------------------
\* state_encoder::parse_packet on the bytes of a datagram
\* ------------------------------------------------------------------
\* A buffer is run-length encoded: a sequence of runs [at, n, b], n > 0
\* bytes of value b from offset `at` on, adjacent runs of different value.
\* Two buffers are equal byte for byte exactly when their run sequences are
\* equal.
Run(n, b) == << [at |-> 0, n |-> n, b |-> b] >>

ByteLen(buf) ==
  IF buf = << >> THEN 0 ELSE buf[Len(buf)].at + buf[Len(buf)].n

\* a followed by b; the runs that meet are merged when their byte is equal.
Concat(a, b) ==
  IF a = << >> THEN b
  ELSE IF b = << >> THEN a
  ELSE LET la == a[Len(a)]
           moved == [k \in 1 .. Len(b) |-> [b[k] EXCEPT !.at = b[k].at + ByteLen(a)]]
       IN  IF la.b = b[1].b
           THEN SubSeq(a, 1, Len(a) - 1)
                \o << [at |-> la.at, n |-> la.n + b[1].n, b |-> la.b] >>
                \o Tail(moved)
           ELSE a \o moved

\* data[off .. off + n - 1]; the caller has checked off + n <= len.
Slice(buf, off, n) ==
  LET hit == SelectSeq(buf, LAMBDA r : r.at < off + n /\ r.at + r.n > off)
  IN  [k \in 1 .. Len(hit) |->
         LET from == IF hit[k].at < off THEN off ELSE hit[k].at
             to == IF hit[k].at + hit[k].n > off + n THEN off + n
                   ELSE hit[k].at + hit[k].n
         IN  [at |-> from - off, n |-> to - from, b |-> hit[k].b]]

ByteAt(buf, off) == Slice(buf, off, 1)[1].b

RECURSIVE ConcatAll(_)
ConcatAll(parts) ==
  IF Len(parts) = 0 THEN << >>
  ELSE IF Len(parts) = 1 THEN parts[1]
  ELSE LET half == Len(parts) \div 2
       IN  Concat(ConcatAll(SubSeq(parts, 1, half)),
                  ConcatAll(SubSeq(parts, half + 1, Len(parts))))

\* Little-endian integers, as the packed structs hold them.
PackU16(v) == Concat(Run(1, v % 256), Run(1, v \div 256))
PackU32(v) == Concat(PackU16(v % 65536), PackU16(v \div 65536))
ReadU16(buf, off) == ByteAt(buf, off) + 256 * ByteAt(buf, off + 1)
ReadU32(buf, off) == ReadU16(buf, off) + 65536 * ReadU16(buf, off + 2)

\* The reference packing of a STATE: StatePacketFixed, the events, the
\* has_pathability flag, the optional pathability plane, the two
\* visibility planes.  global, units, the events and the planes are
\* buffers.
pack_state(st) ==
  ConcatAll(<< PackU16(st.header.magic),
               Run(1, st.header.version),
               Run(1, st.header.msg_type),
               PackU32(st.header.tick),
               st.global, st.units,
               Run(1, st.num_events),
               ConcatAll(st.events),
               Run(1, st.has_path),
               st.pathability, st.vis_t0, st.vis_t1 >>)

\* A parser that does not step over the pathability plane.
AfterPathabilityNoSkip(offset, has_path) == offset

\* The offset after the optional pathability plane.
AfterPathability(offset, has_path) ==
  IF has_path # 0 THEN offset + GRID_CELLS ELSE offset

\* parse_packet over the bytes; the trailing creep block (its struct is
\* declared in no file of the repository) does not change the result.
parse_bytes(data) ==
  LET len == ByteLen(data)
      raw_events == IF len < FIXED_SIZE THEN 0 ELSE ByteAt(data, FIXED_SIZE - 1)
      num_events == IF raw_events > MAX_EVENTS THEN MAX_EVENTS ELSE raw_events
      off1 == FIXED_SIZE + num_events * EventSize
      has_path == IF off1 + 1 > len THEN 0 ELSE ByteAt(data, off1)
      off2 == off1 + 1
      off3 == AfterPathability(off2, has_path)
      off4 == off3 + GRID_CELLS
      off5 == off4 + GRID_CELLS
  IN  IF len < FIXED_SIZE THEN [ok |-> FALSE]
      ELSE IF ReadU16(data, 0) # MAGIC THEN [ok |-> FALSE]
      ELSE IF ByteAt(data, 2) # PROTO_VERSION THEN [ok |-> FALSE]
      ELSE IF ByteAt(data, 3) # MSG_STATE THEN [ok |-> FALSE]
      ELSE IF off1 > len THEN [ok |-> FALSE]
      ELSE IF off2 > len THEN [ok |-> FALSE]
      ELSE IF has_path # 0 /\ off2 + GRID_CELLS > len THEN [ok |-> FALSE]
      ELSE IF off4 > len THEN [ok |-> FALSE]
      ELSE IF off5 > len THEN [ok |-> FALSE]
      ELSE [ok |-> TRUE,
            header |-> [magic |-> ReadU16(data, 0), version |-> ByteAt(data, 2),
                        msg_type |-> ByteAt(data, 3), tick |-> ReadU32(data, 4)],
            global |-> Slice(data, HeaderSize, GlobalStateSize),
            units |-> Slice(data, HeaderSize + GlobalStateSize,
                            MAX_UNITS * UnitStateSize),
            events |-> [k \in 1 .. num_events |->
                          Slice(data, FIXED_SIZE + (k - 1) * EventSize, EventSize)],
            pathability |-> IF has_path # 0 THEN Slice(data, off2, GRID_CELLS)
                            ELSE << >>,
            vis_t0 |-> Slice(data, off3, GRID_CELLS),
            vis_t1 |-> Slice(data, off4, GRID_CELLS)]

\* ------------------------------------------------------------------
\* state_encoder::encode (enemy sort) and encode_masks
\* ------------------------------------------------------------------
TeamOf(i) == IF i < 6 THEN 0 ELSE 1
EnemyStart(i) == IF TeamOf(i) = 0 THEN 6 ELSE 0

\* An entry that records the observer's offset in place of the enemy's.
EnemySortEntryOfObserver(units, i, j) ==
  LET eu == units[EnemyStart(i) + j]
      dx == eu.x - units[i].x
      dy == eu.y - units[i].y
  IN  [offset |-> i % 6, dist_sq |-> dx * dx + dy * dy,
       visible |-> mask_bit(eu.visible_mask, i), alive |-> eu.alive # 0]

\* The EnemySort entry of real offset j for observer i.
EnemySortEntry(units, i, j) ==
  LET eu == units[EnemyStart(i) + j]
      dx == eu.x - units[i].x
      dy == eu.y - units[i].y
  IN  [offset |-> j, dist_sq |-> dx * dx + dy * dy,
       visible |-> mask_bit(eu.visible_mask, i), alive |-> eu.alive # 0]

EnemyRank(a) == IF a.alive /\ a.visible THEN 0 ELSE IF a.alive THEN 1 ELSE 2

\* A comparator that looks at the distance before the rank.
EnemyLessByDistance(a, b) ==
  IF a.dist_sq # b.dist_sq THEN a.dist_sq < b.dist_sq
  ELSE IF EnemyRank(a) # EnemyRank(b) THEN EnemyRank(a) < EnemyRank(b)
  ELSE a.offset < b.offset

\* The comparator handed to std::stable_sort.
EnemyLess(a, b) ==
  IF EnemyRank(a) # EnemyRank(b) THEN EnemyRank(a) < EnemyRank(b)
  ELSE IF a.dist_sq # b.dist_sq THEN a.dist_sq < b.dist_sq
  ELSE a.offset < b.offset

\* std::stable_sort: every entry is placed before the first already placed
\* entry it is less than, entries taken in array order.
StableInsert(sorted, e) ==
  LET before == {k \in 1 .. Len(sorted) : EnemyLess(e, sorted[k])}
      at == IF before = {} THEN Len(sorted) + 1
            ELSE CHOOSE k \in before : \A m \in before : k <= m
  IN  SubSeq(sorted, 1, at - 1) \o << e >> \o SubSeq(sorted, at, Len(sorted))

RECURSIVE StableSortFrom(_, _, _)
StableSortFrom(arr, k, sorted) ==
  IF k > Len(arr) THEN sorted
  ELSE StableSortFrom(arr, k + 1, StableInsert(sorted, arr[k]))

stable_sort(arr) == StableSortFrom(arr, 1, << >>)

\* sort_map.sorted_to_real[i]: the offsets of the sorted entries.
sorted_to_real(units, i) ==
  LET enemy_sort == stable_sort([j \in 1 .. 6 |-> EnemySortEntry(units, i, j - 1)])
  IN  [s \in 0 .. 5 |-> enemy_sort[s + 1].offset]

\* hero_to_idx, with the fallback 0 of the encoders for an unknown id.
hero_to_idx(hid) ==
  IF hid \in HeroIdSet THEN (CHOOSE h \in Agents : hero_ids[h + 1] = hid) ELSE 0

ENEMY_DIM == 43

\* atan2(dy, dx) / pi in thousandths, exact on the axes and the diagonals.
Atan2OverPi(dy, dx) ==
  IF dy = 0 THEN (IF dx >= 0 THEN 0 ELSE 1000)
  ELSE IF dx = 0 THEN (IF dy > 0 THEN 500 ELSE 0 - 500)
  ELSE IF dy > 0 THEN (IF dx > 0 THEN 250 ELSE 750)
  ELSE (IF dx > 0 THEN 0 - 250 ELSE 0 - 750)

\* The full data of a visible enemy.  Every field is the numerator of the
\* code's quotient (the divisors N::hp, N::xy, ... are positive constants);
\* the distance sqrt(dx*dx + dy*dy) is kept as its square.
EnemyFull(u, my_x, my_y) ==
  LET dx == u.x - my_x
      dy == u.y - my_y
      hero_idx == hero_to_idx(u.hero_id)
  IN  [k \in 0 .. (ENEMY_DIM - 1) |->
        IF k = 0 THEN 1
        ELSE IF k = 1 THEN u.hp
        ELSE IF k = 2 THEN u.max_hp
        ELSE IF k = 3 THEN u.mp
        ELSE IF k = 4 THEN u.max_mp
        ELSE IF k = 5 THEN u.x
        ELSE IF k = 6 THEN u.y
        ELSE IF k = 7 THEN u.str
        ELSE IF k = 8 THEN u.agi
        ELSE IF k = 9 THEN u.int_
        ELSE IF k = 10 THEN u.atk
        ELSE IF k = 11 THEN u.def_
        ELSE IF k = 12 THEN u.max_hp
        ELSE IF k = 13 THEN u.max_mp
        ELSE IF k = 14 THEN u.level
        ELSE IF k = 15 THEN 0
        ELSE IF k <= 21 THEN (IF mask_bit(u.buffs, k - 16) THEN 1 ELSE 0)
        ELSE IF k = 22 THEN 1
        ELSE IF k <= 34 THEN (IF k - 23 = hero_idx THEN 1 ELSE 0)
        ELSE IF k = 35 THEN u.vel_x
        ELSE IF k = 36 THEN u.vel_y
        ELSE IF k <= 40 THEN 0 - 1
        ELSE IF k = 41 THEN Atan2OverPi(dy, dx)
        ELSE dx * dx + dy * dy]

\* An encoder that fills in every alive enemy, seen or not.
encode_enemy_unredacted(u, my_x, my_y, observer_pid) ==
  LET hero_idx == hero_to_idx(u.hero_id)
  IN  IF u.alive = 0
      THEN [k \in 0 .. (ENEMY_DIM - 1) |-> IF k = 23 + hero_idx THEN 1 ELSE 0]
      ELSE EnemyFull(u, my_x, my_y)

\* encode_enemy: the vector of one enemy for one observer.
encode_enemy(u, my_x, my_y, observer_pid) ==
  LET hero_idx == hero_to_idx(u.hero_id)
      vis == mask_bit(u.visible_mask, observer_pid)
  IN  IF u.alive = 0
      THEN [k \in 0 .. (ENEMY_DIM - 1) |-> IF k = 23 + hero_idx THEN 1 ELSE 0]
      ELSE IF ~vis
      THEN [k \in 0 .. (ENEMY_DIM - 1) |->
              IF k = 22 \/ k = 23 + hero_idx THEN 1 ELSE 0]
      ELSE EnemyFull(u, my_x, my_y)

\* encode: enemy_acc[i][j], the enemies of observer i in sorted order.
enemy_vec(units, i, smap) ==
  [t \in 0 .. 5 |->
     encode_enemy(units[EnemyStart(i) + smap[t]], units[i].x, units[i].y, i)]

\* An encoder that copies the fourteen bits without the sort map.
UnitTargetRowUnsorted(units, i, smap) ==
  {b \in 0 .. 13 : mask_bit(units[i].mask.unit_target, b)}

\* encode_masks, head unit_target, row of agent i: the set of true columns.
UnitTargetRow(units, i, smap) ==
  {b \in 0 .. 7 : mask_bit(units[i].mask.unit_target, b)}
  \cup {8 + s : s \in {t \in 0 .. 5 :
                  mask_bit(units[i].mask.unit_target, 8 + smap[t])}}

\* encode_masks, row of agent i for head `name`.
MaskRow(units, i, name, smap) ==
  IF name = "unit_target" THEN UnitTargetRow(units, i, smap)
  ELSE {b \in 0 .. (HeadSize(name) - 1) : mask_bit(units[i].mask[name], b)}

encode_masks(units, i) ==
  [name \in HeadNames |-> MaskRow(units, i, name, sorted_to_real(units, i))]

\* encode + encode_masks of every payload of the model, per observer:
\* the sort map row and the mask rows.
EncodeTable ==
  [p \in PayloadNames |->
     [i \in Agents |->
        [sort_map |-> sorted_to_real(Payload(p).units, i),
         masks |-> encode_masks(Payload(p).units, i)]]]

encode(parsed) == EncodeTable[parsed.payload]

\* ------------------------------------------------------------------
\* InferenceEngine
\* ------------------------------------------------------------------
SetMin(S) == CHOOSE x \in S : \A y \in S : x <= y
SetMax(S) == CHOOSE x \in S : \A y \in S : x >= y

\* Outcomes of the random draws explored by the model.
SampleChoices == {"lo", "hi"}

\* sample_categorical: a draw from softmax(masked logits); with no true
\* column every masked logit is equal and any column can be drawn.
sample_categorical(row, size, c) ==
  LET support == IF row = {} THEN 0 .. (size - 1) ELSE row
  IN  IF c = "lo" THEN SetMin(support) ELSE SetMax(support)

\* sample_normal, in thousandths.
sample_normal(c) == IF c = "lo" THEN << 0 - 1500, 300 >> ELSE << 1500, 0 >>

ZeroActions ==
  [name \in HeadNames \cup {"move", "point"} |->
     IF name \in HeadNames THEN 0 ELSE << 0, 0 >>]

\* The sampled actions of one forward pass: every discrete head from its
\* masked logits, move and point from their normal distributions.
SampleActions(masks, c) ==
  [name \in HeadNames \cup {"move", "point"} |->
     IF name \in HeadNames
     THEN sample_categorical(masks[name], HeadSize(name), c)
     ELSE sample_normal(c)]

\* SampleActions of every mask row of EncodeTable.
DrawTable ==
  [p \in PayloadNames |->
     [i \in Agents |->
        [c \in SampleChoices |-> SampleActions(EncodeTable[p][i].masks, c)]]]

\* A default result that advances the LSTM pair.
DefaultAdvancesHidden(hx) ==
  [actions |-> ZeroActions, log_prob |-> 0, value |-> 0,
   new_h |-> Append(hx, << 0, 0 >>)]

\* The result of infer_hero when no module is loaded for the hero.
DefaultResult(hx) ==
  [actions |-> ZeroActions, log_prob |-> 0, value |-> 0, new_h |-> hx]

\* The LSTM pair returned by a successful forward pass.
ForwardHidden(hx, tick, i) == Append(hx, << tick, i >>)

\* infer_hero for agent i of the STATE at `tick`; `throws` is the outcome of
\* model.forward (threw = TRUE: the exception leaves infer_hero).
\* obs.draws[c] is SampleActions(obs.masks, c).  The value head stands for
\* the outputs that depend on the module: it returns the identity of the
\* module that ran.
infer_hero(models, hero_id, hx, obs, tick, i, c, throws) ==
  IF hero_id \notin DOMAIN models THEN [threw |-> FALSE, r |-> DefaultResult(hx)]
  ELSE IF throws THEN [threw |-> TRUE, r |-> DefaultResult(<< >>)]
  ELSE [threw |-> FALSE,
        r |-> [actions |-> obs.draws[c],
               log_prob |-> 0 - 1, value |-> models[hero_id],
               new_h |-> ForwardHidden(hx, tick, i)]]

\* ------------------------------------------------------------------
\* RewardCalc::compute_terminal
\* ------------------------------------------------------------------
compute_terminal(winner, reason) ==
  [a \in Agents |->
     IF winner = 0 THEN (IF a < 6 THEN win_reward ELSE lose_reward)
     ELSE IF winner = 1 THEN (IF a < 6 THEN lose_reward ELSE win_reward)
     ELSE timeout_reward]

\* ------------------------------------------------------------------
\* RewardCalc::compute (reward units of 1/72000)
\* ------------------------------------------------------------------
kill_personal == 3 * RUnit
death == 0 - RUnit
creep == 11520
levelup == 36000
friendly_kill == (0 - 3) * RUnit
score_point == 2 * RUnit
damage_ratio == 3 * RUnit
heal_ratio == RUnit
skill_points_held == 0 - 1440
idle_penalty == 0 - 216
\* RewardDefaults::creep_level_cap is used by compute but declared in no file
\* of the repository; the levels of the model's units stay below it.
creep_level_cap == 25

ZeroRewards == [a \in Agents |-> 0]

\* RewardCalc() / InstanceState{}.reward_calc
NewRewardCalc ==
  [prev_x |-> [a \in Agents |-> 0], prev_y |-> [a \in Agents |-> 0],
   has_prev_pos |-> FALSE]

\* Step 1: the reward one event adds to agent a.
EventReward(ev, units, a) ==
  IF ev.type = EVT_KILL
  THEN IF ev.killer_idx < MAX_UNITS /\ ev.victim_idx < MAX_UNITS
       THEN (IF a = ev.killer_idx
             THEN (IF TeamOf(ev.killer_idx) # TeamOf(ev.victim_idx)
                   THEN kill_personal ELSE friendly_kill)
             ELSE 0)
            + (IF a = ev.victim_idx THEN death ELSE 0)
       ELSE 0
  ELSE IF ev.type = EVT_CREEP_KILL
  THEN IF ev.killer_idx < MAX_UNITS /\ a = ev.killer_idx
          /\ units[ev.killer_idx].level < creep_level_cap
       THEN creep ELSE 0
  ELSE IF ev.type = EVT_LEVEL_UP
  THEN IF ev.killer_idx < MAX_UNITS /\ a = ev.killer_idx THEN levelup ELSE 0
  ELSE 0

RECURSIVE EventRewards(_, _, _)
EventRewards(events, units, a) ==
  IF events = << >> THEN 0
  ELSE EventReward(Head(events), units, a) + EventRewards(Tail(events), units, a)

RECURSIVE SumOver(_, _)
SumOver(f, S) ==
  IF S = {} THEN 0
  ELSE LET x == CHOOSE y \in S : TRUE IN f[x] + SumOver(f, S \ {x})

TeamAgents(team) == {a \in Agents : TeamOf(a) = team}

\* Step 1b: damage dealt to unit v is shared by the six agents of the other
\* team; a healed unit is rewarded itself.
DamageTo(units, prev_units, v) ==
  IF prev_units[v].alive # 0 /\ prev_units[v].hp - units[v].hp > 0
     /\ units[v].max_hp > 0
  THEN (damage_ratio * (prev_units[v].hp - units[v].hp)) \div units[v].max_hp
  ELSE 0

DamageReward(units, prev_units, a) ==
  LET e == EnemyStart(a)
  IN  DamageTo(units, prev_units, e) + DamageTo(units, prev_units, e + 1)
      + DamageTo(units, prev_units, e + 2) + DamageTo(units, prev_units, e + 3)
      + DamageTo(units, prev_units, e + 4) + DamageTo(units, prev_units, e + 5)

HealReward(units, prev_units, a) ==
  IF units[a].alive # 0 /\ prev_units[a].alive # 0
     /\ units[a].hp - prev_units[a].hp > 0 /\ units[a].max_hp > 0
  THEN (heal_ratio * (units[a].hp - prev_units[a].hp)) \div units[a].max_hp
  ELSE 0

\* Step 2: score deltas.
ScoreReward(global, prev_global, a) ==
  LET d0 == global.score_team0 - prev_global.score_team0
      d1 == global.score_team1 - prev_global.score_team1
  IN  IF a < 6 THEN (IF d0 > 0 THEN score_point * d0 ELSE 0)
      ELSE (IF d1 > 0 THEN score_point * d1 ELSE 0)

Abs(n) == IF n < 0 THEN 0 - n ELSE n

\* Step 3: the combat exemption of the idle penalty.
InCombat(units, prev_units, a, has_prev) ==
  /\ has_prev
  /\ \/ Abs(units[a].hp - prev_units[a].hp) > 1
     \/ \E e \in Agents :
          /\ TeamOf(e) # TeamOf(a)
          /\ prev_units[e].hp - units[e].hp > 1
          /\ (units[a].x - units[e].x) * (units[a].x - units[e].x)
             + (units[a].y - units[e].y) * (units[a].y - units[e].y) < 800 * 800

\* An idle test that also counts a move of exactly 10 units as idle.
IsIdleInclusive(dx, dy) == dx * dx + dy * dy <= 10 * 10

\* dist = sqrt(dx * dx + dy * dy); if (dist < 10.0f)
IsIdle(dx, dy) == dx * dx + dy * dy < 10 * 10

TickPenalty(rc, units, prev_units, a, has_prev) ==
  IF units[a].alive = 0 THEN 0
  ELSE (IF /\ rc.has_prev_pos
           /\ IsIdle(units[a].x - rc.prev_x[a], units[a].y - rc.prev_y[a])
           /\ ~InCombat(units, prev_units, a, has_prev)
        THEN idle_penalty ELSE 0)
       + (IF units[a].skill_points > 0
          THEN skill_points_held * units[a].skill_points ELSE 0)

\* Steps 1-3: the raw per-agent rewards.
RawRewards(rc, units, global, events, prev_units, prev_global, has_prev) ==
  [a \in Agents |->
     EventRewards(events, units, a)
     + (IF has_prev
        THEN DamageReward(units, prev_units, a) + HealReward(units, prev_units, a)
             + ScoreReward(global, prev_global, a)
        ELSE 0)
     + TickPenalty(rc, units, prev_units, a, has_prev)]

\* The sum of the six rewards of a team
TeamSum(rewards, team) ==
  rewards[6 * team] + rewards[6 * team + 1] + rewards[6 * team + 2]
  + rewards[6 * team + 3] + rewards[6 * team + 4] + rewards[6 * team + 5]

\* tau = 0.5: tau * team_avg + (1 - tau) * r = (team_sum + 6 r) / 12
apply_team_spirit(rewards) ==
  [a \in Agents |-> (TeamSum(rewards, TeamOf(a)) + 6 * rewards[a]) \div 12]

\* A zero-sum step whose second loop reads team 0 after the first loop
\* changed it.
apply_zero_sum_in_place(rewards) ==
  LET avg1 == TeamSum(rewards, 1) \div 6
      avg0 == (TeamSum(rewards, 0) - 6 * avg1) \div 6
  IN  [a \in Agents |-> rewards[a] - (IF a < 6 THEN avg1 ELSE avg0)]

\* avg[0], avg[1] are computed before either loop subtracts.
apply_zero_sum(rewards) ==
  [a \in Agents |-> rewards[a] - (TeamSum(rewards, 1 - TeamOf(a)) \div 6)]

\* A time decay that shrinks gains only: rewards below zero are left alone.
apply_time_decay_gains(rewards, game_time) ==
  LET num == 7 ^ (game_time \div 600)
      den == 10 ^ (game_time \div 600)
  IN  [a \in Agents |->
         IF rewards[a] > 0 THEN (rewards[a] * num) \div den ELSE rewards[a]]

\* decay = 0.7 ^ (game_time / 600), for game times that are whole intervals
apply_time_decay(rewards, game_time) ==
  LET num == 7 ^ (game_time \div 600)
      den == 10 ^ (game_time \div 600)
  IN  [a \in Agents |-> (rewards[a] * num) \div den]

compute_rewards(rc, units, global, events, prev_units, prev_global, has_prev) ==
  CHOOSE r \in
    { apply_time_decay(zero_sum, global.game_time) :
        zero_sum \in
          { apply_zero_sum(spirit) :
              spirit \in
                { apply_team_spirit(raw) :
                    raw \in {RawRewards(rc, units, global, events, prev_units,
                                        prev_global, has_prev)} } } } : TRUE

\* The RewardCalc state after compute: positions of the alive units.
compute_state(rc, units) ==
  [prev_x |-> [a \in Agents |-> IF units[a].alive # 0 THEN units[a].x ELSE rc.prev_x[a]],
   prev_y |-> [a \in Agents |-> IF units[a].alive # 0 THEN units[a].y ELSE rc.prev_y[a]],
   has_prev_pos |-> TRUE]

\* ------------------------------------------------------------------
\* State of the server
\* ------------------------------------------------------------------
VARIABLES
  pc,                 \* position in the loop body of main
  cycles,             \* completed loop iterations
  packets,            \* main: the vector returned by recv_all
  done_packets,       \* main: DONE packets still to be handled in Phase 2
  latest_state,       \* main: inst_id -> index into packets
  state_todo,         \* main: keys of latest_state Phase 3 has not visited
  skipped_this_cycle,
  total_skipped,
  instances,          \* main: inst_id -> InstanceState
  buffers_,           \* RolloutWriter: inst_id -> agent -> transitions
  completed_,         \* RolloutWriter: completed episodes
  rollout_files,      \* the .pt files written, by episode length T
  hero_models_,       \* InferenceEngine: hero id -> loaded module
  model_times_,       \* InferenceEngine: hero id -> recorded mtime
  model_dir,          \* the artifact directory: hero id -> mtime, 0 = no file
  net_out,            \* datagrams sent in this loop iteration
  log_out,            \* lines main printed in this loop iteration
  episode_states,     \* history: inst_id -> STATEs processed in its episode
  fn_in,              \* the argument of a function examined on its own
  fn_out              \* its result

vars ==
  << pc, cycles, packets, done_packets, latest_state, state_todo,
     skipped_this_cycle, total_skipped, instances, buffers_, completed_,
     rollout_files, hero_models_, model_times_, model_dir, net_out,
     log_out, episode_states, fn_in, fn_out >>

\* cfg.rollout_size as configured for the model: two steps of twelve agents
rollout_size == 24

EmptyMap == [k \in {} |-> 0]

MapPut(m, k, v) == (k :> v) @@ m

MapErase(m, k) == [x \in (DOMAIN m) \ {k} |-> m[x]]

\* std::string::rfind of one character: the last position holding it
\* (1-based), 0 for npos
rfind(str, ch) ==
  LET at == {k \in 1 .. Len(str) : str[k] = ch}
  IN  IF at = {} THEN 0 ELSE CHOOSE k \in at : \A j \in at : j <= k

\* A key that is the whole "ip:port" string.
extract_ip_whole(addr) == addr

\* extract_ip: the address up to the last ':', the whole string without one
extract_ip(addr) ==
  LET pos == rfind(addr, ":")
  IN  IF pos # 0 THEN SubSeq(addr, 1, pos - 1) ELSE addr

instance_key(addr) == extract_ip(addr)

\* std::stoi of the text after the last ':'
port_of(addr) ==
  LET pos == rfind(addr, ":")
      IN  IF pos = 0 THEN 0
          ELSE LET digits == SubSeq(addr, pos + 1, Len(addr))
                   val(c) == CHOOSE d \in 0 .. 9 : to_string(d) = << c >>
                   RECURSIVE stoi(_)
                   stoi(k) == IF k = 0 THEN 0 ELSE 10 * stoi(k - 1) + val(digits[k])
               IN  stoi(Len(digits))

ZeroUnit ==
  [hero_id |-> "", x |-> 0, y |-> 0, alive |-> 0, hp |-> 0, max_hp |-> 0,
   level |-> 0, skill_points |-> 0, visible_mask |-> 0, mask |-> MaskFields(0)]

\* InstanceState{}
NewInstanceState ==
  [hx |-> EmptyMap,
   prev_units |-> [a \in Agents |-> ZeroUnit],
   prev_global |-> [game_time |-> 0, score_team0 |-> 0, score_team1 |-> 0],
   has_prev |-> FALSE,
   reward_calc |-> NewRewardCalc,
   last_tick |-> 0]

\* ------------------------------------------------------------------
\* RolloutWriter
\* ------------------------------------------------------------------
EmptyBuffer == [a \in Agents |-> << >>]

\* A writer with one buffer for all instances: every transition goes
\* under the key of the first client.
store_shared(bufs, inst_id, agent_idx, t) ==
  IF agent_idx < 0 \/ agent_idx >= MAX_UNITS THEN bufs
  ELSE LET cur == IF IP1 \in DOMAIN bufs THEN bufs[IP1] ELSE EmptyBuffer
       IN  MapPut(bufs, IP1, [cur EXCEPT ![agent_idx] = Append(@, t)])

\* store: buffers_[instance_id][agent_idx].push_back(t)
store(bufs, inst_id, agent_idx, t) ==
  IF agent_idx < 0 \/ agent_idx >= MAX_UNITS THEN bufs
  ELSE LET cur == IF inst_id \in DOMAIN bufs THEN bufs[inst_id] ELSE EmptyBuffer
       IN  MapPut(bufs, inst_id, [cur EXCEPT ![agent_idx] = Append(@, t)])

\* A writer that appends the terminal reward as a step of its own.
AppendTerminal(traj, r) ==
  IF traj = << >> THEN traj
  ELSE Append(traj, [traj[Len(traj)] EXCEPT !.done = TRUE, !.reward = r])

\* mark_last_done on one trajectory
\* A marking that adds the terminal reward and leaves the done flag alone.
MarkTrajOpen(traj, r) ==
  IF traj = << >> THEN traj
  ELSE [traj EXCEPT ![Len(traj)] = [@ EXCEPT !.reward = @ + r]]

MarkTraj(traj, r) ==
  IF traj = << >> THEN traj
  ELSE [traj EXCEPT ![Len(traj)] =
          [@ EXCEPT !.done = TRUE, !.reward = @ + r]]

mark_last_done(bufs, inst_id, terminal_rewards) ==
  IF inst_id \notin DOMAIN bufs THEN bufs
  ELSE [bufs EXCEPT ![inst_id] =
          [a \in Agents |-> MarkTraj(bufs[inst_id][a], terminal_rewards[a])]]

\* flush_episode: the new completed_ list
flush_completed(bufs, compl, inst_id) ==
  IF inst_id \notin DOMAIN bufs THEN compl
  ELSE IF \E a \in Agents : bufs[inst_id][a] # << >>
       THEN Append(compl, bufs[inst_id])
       ELSE compl

\* flush_episode: the new buffers_ map
flush_buffers(bufs, inst_id) ==
  IF inst_id \notin DOMAIN bufs THEN bufs ELSE MapErase(bufs, inst_id)

EpisodeT(ep) == SetMax({Len(ep[a]) : a \in Agents})

\* A count that takes the steps of an episode for its transitions.
EpisodeSteps(ep) == Len(ep[0])

\* total += agent_traj.size() for the twelve trajectories of an episode
EpisodeTransitions(ep) == SumOver([a \in Agents |-> Len(ep[a])], Agents)

RECURSIVE TotalTransitions(_)
TotalTransitions(compl) ==
  IF compl = << >> THEN 0
  ELSE EpisodeTransitions(Head(compl)) + TotalTransitions(Tail(compl))

\* dump_to_file for every episode: the files that appear
RECURSIVE DumpAll(_)
DumpAll(compl) ==
  IF compl = << >> THEN << >>
  ELSE (IF EpisodeT(Head(compl)) = 0 THEN << >> ELSE << EpisodeT(Head(compl)) >>)
       \o DumpAll(Tail(compl))

maybe_dump_files(compl, files, min_transitions) ==
  IF TotalTransitions(compl) < min_transitions THEN files
  ELSE files \o DumpAll(compl)

maybe_dump_completed(compl, min_transitions) ==
  IF TotalTransitions(compl) < min_transitions THEN compl ELSE << >>

\* ------------------------------------------------------------------
\* InferenceEngine: loading
\* ------------------------------------------------------------------
\* Artifact directories the model starts from: empty, files for the heroes
\* of team 0 only.  A module is identified by the mtime of the
\* file it was loaded from.
ModelDirChoices ==
  { [h \in HeroIdSet |-> 0],
    [h \in HeroIdSet |-> IF h \in {hero_ids[k] : k \in 1 .. 6} THEN 1 ELSE 0] }

\* A file of the directory is 0 (no file), t > 0 (a file of mtime t that
\* torch::jit::load accepts) or -t (a file of mtime t on which it throws
\* c10::Error).
FileMtime(f) == IF f < 0 THEN 0 - f ELSE f
FileLoads(f) == f > 0

\* A loader that drops the entry of a hero whose file does not load.
load_hero_model_or_drop(m, dir, hero_id) ==
  IF dir[hero_id] = 0 THEN m
  ELSE IF FileLoads(dir[hero_id]) THEN MapPut(m, hero_id, FileMtime(dir[hero_id]))
  ELSE MapErase(m, hero_id)

\* load_hero_model on hero_models_ or model_times_: no file, nothing; a
\* load that throws is caught and leaves the entry as it was; a load that
\* returns puts the module, and the file's time, in the entry.
load_hero_model(m, dir, hero_id) ==
  IF dir[hero_id] = 0 THEN m
  ELSE IF FileLoads(dir[hero_id]) THEN MapPut(m, hero_id, FileMtime(dir[hero_id]))
  ELSE m

\* load_hero_models in the constructor
LoadedAtStartup(dir) ==
  [h \in {x \in HeroIdSet : x \in DOMAIN load_hero_model(EmptyMap, dir, x)} |->
     load_hero_model(EmptyMap, dir, h)[h]]

\* A reload check that loads only files newer than the recorded time.
ReloadSetNewer(times, dir) ==
  {h \in HeroIdSet :
     dir[h] # 0 /\ (h \notin DOMAIN times \/ times[h] < FileMtime(dir[h]))}

\* maybe_reload: the heroes whose file exists with an mtime that differs
\* from the recorded one (or none is recorded): load_hero_model is called
\* for them
ReloadSet(times, dir) ==
  {h \in HeroIdSet :
     dir[h] # 0 /\ (h \notin DOMAIN times \/ times[h] # FileMtime(dir[h]))}

maybe_reload(m, times, dir) ==
  LET after(h) == IF h \in ReloadSet(times, dir)
                  THEN load_hero_model(m, dir, h) ELSE m
  IN  [h \in {x \in HeroIdSet : x \in DOMAIN after(x)} |-> after(h)[h]]

\* ------------------------------------------------------------------
\* main, Phase 1: classify
\* ------------------------------------------------------------------
\* A classification that keeps the first STATE of an instance and counts
\* every later one as skipped.
ClassifyOneKeepFirst(acc, pkts, pi) ==
  LET d == pkts[pi]
      inst_id == instance_key(d.addr)
  IN  IF d.len < HeaderSize THEN acc
      ELSE IF d.magic # MAGIC \/ d.version # PROTO_VERSION THEN acc
      ELSE IF d.msg_type = MSG_DONE
      THEN [acc EXCEPT !.done =
              Append(@, [inst_id |-> inst_id, size |-> d.len, tick |-> d.tick,
                         winner |-> d.winner, reason |-> d.reason])]
      ELSE IF d.msg_type = MSG_STATE
      THEN IF inst_id \in DOMAIN acc.latest
           THEN [acc EXCEPT !.skipped = @ + 1]
           ELSE [acc EXCEPT !.latest = MapPut(@, inst_id, pi)]
      ELSE acc

ClassifyOne(acc, pkts, pi) ==
  LET d == pkts[pi]
      inst_id == instance_key(d.addr)
  IN  IF d.len < HeaderSize THEN acc
      ELSE IF d.magic # MAGIC \/ d.version # PROTO_VERSION THEN acc
      ELSE IF d.msg_type = MSG_DONE
      THEN [acc EXCEPT !.done =
              Append(@, [inst_id |-> inst_id, size |-> d.len, tick |-> d.tick,
                         winner |-> d.winner, reason |-> d.reason])]
      ELSE IF d.msg_type = MSG_STATE
      THEN IF inst_id \in DOMAIN acc.latest
           THEN [acc EXCEPT
                   !.latest = IF d.tick >= pkts[acc.latest[inst_id]].tick
                              THEN [@ EXCEPT ![inst_id] = pi] ELSE @,
                   !.skipped = @ + 1]
           ELSE [acc EXCEPT !.latest = MapPut(@, inst_id, pi)]
      ELSE acc

RECURSIVE ClassifyFrom(_, _, _)
ClassifyFrom(acc, pkts, pi) ==
  IF pi > Len(pkts) THEN acc
  ELSE ClassifyFrom(ClassifyOne(acc, pkts, pi), pkts, pi + 1)

ClassifyAll(pkts) ==
  ClassifyFrom([done |-> << >>, latest |-> EmptyMap, skipped |-> 0], pkts, 1)

\* ------------------------------------------------------------------
\* main, Phase 3: the inference loop over the twelve heroes
\* ------------------------------------------------------------------
\* The draws of one processed STATE: low samples with every forward pass
\* returning, high samples with the forward pass of agent 0 throwing.
Draws == {[c |-> "lo", fail |-> {}], [c |-> "hi", fail |-> {0}]}

\* A catch block whose no-op result carries a zero LSTM pair.
CatchZeroPair(hx) ==
  [actions |-> ZeroActions, log_prob |-> 0, value |-> 0, new_h |-> << >>]

\* The catch block of main: the no-op result, LSTM pair carried over.
CatchResult(hx) ==
  [actions |-> ZeroActions, log_prob |-> 0, value |-> 0, new_h |-> hx]

\* A server that saves the pair for storage after the inference.
OutputHx(hx_in, result) == result.new_h

\* The pair saved for storage before the inference of agent i.
InputHx(hx_in, result) == hx_in

\* A server whose remap of the enemy target writes into results[i].
ResultRemappedInPlace(result, smap) ==
  [result EXCEPT !.actions["unit_target"] =
                   IF @ >= 8 /\ @ <= 13 THEN 8 + smap[@ - 8] ELSE @]

\* results[i] as the store loop and send_action_packet read it: the
\* result of the inference, which send_action_packet takes by const
\* reference and copies into its own record before it remaps.
ResultKept(result, smap) == result

RECURSIVE InferLoop(_, _, _, _)
InferLoop(i, hxmap, acc, ctx) ==
  IF i = MAX_UNITS THEN [hx |-> hxmap, per_agent |-> acc]
  ELSE LET hero_id == ctx.units[i].hero_id
           hx0 == IF hero_id \in DOMAIN hxmap THEN hxmap[hero_id] ELSE << >>
           masks == ctx.obs[i].masks
           res == infer_hero(ctx.models, hero_id, hx0,
                             [masks |-> masks, draws |-> ctx.draws[i]],
                             ctx.tick, i, ctx.c, i \in ctx.fail)
           result == IF res.threw THEN CatchResult(hx0) ELSE res.r
       IN  InferLoop(i + 1, MapPut(hxmap, hero_id, result.new_h),
                     Append(acc, [input_hx |-> InputHx(hx0, result),
                                  masks |-> masks,
                                  result |-> ResultKept(result,
                                                        ctx.obs[i].sort_map)]),
                     ctx)

\* ------------------------------------------------------------------
\* main: send_action_packet, UdpServer::send_to
\* ------------------------------------------------------------------
Clamp1(v) == IF v < 0 - 1000 THEN 0 - 1000 ELSE IF v > 1000 THEN 1000 ELSE v

\* An emitter that sends the sampled value as it is.
EmitUnitTargetRaw(v, smap) == v

\* get_int + the remap of an enemy target from sorted slot to real offset
EmitUnitTarget(v, smap) ==
  IF v >= 8 /\ v <= 13 THEN 8 + smap[v - 8] ELSE v

UnitAction(i, r, smap) ==
  [idx |-> i,
   move_x |-> Clamp1(r.actions["move"][1]), move_y |-> Clamp1(r.actions["move"][2]),
   point_x |-> Clamp1(r.actions["point"][1]), point_y |-> Clamp1(r.actions["point"][2]),
   sel |-> [name \in HeadNames |->
              IF name = "unit_target"
              THEN EmitUnitTarget(r.actions[name] % 256, smap)
              ELSE r.actions[name] % 256]]

\* A server that answers to the port the STATE came from.
send_to_source_port(addr, tick, per_agent, obs) ==
  [dst |-> [ip |-> extract_ip(addr), port |-> port_of(addr)],
   magic |-> MAGIC, version |-> PROTO_VERSION, msg_type |-> MSG_ACTION,
   tick |-> tick,
   actions |-> [i \in Agents |->
                  UnitAction(i, per_agent[i + 1].result, obs[i].sort_map)]]

send_action_packet(addr, tick, per_agent, obs) ==
  [dst |-> [ip |-> extract_ip(addr), port |-> send_port],
   magic |-> MAGIC, version |-> PROTO_VERSION, msg_type |-> MSG_ACTION,
   tick |-> tick,
   actions |-> [i \in Agents |->
                  UnitAction(i, per_agent[i + 1].result, obs[i].sort_map)]]

\* ------------------------------------------------------------------
\* main: the loop body
\* ------------------------------------------------------------------
Init ==
  /\ pc = "recv"
  /\ cycles = 0
  /\ packets = << >>
  /\ done_packets = << >>
  /\ latest_state = EmptyMap
  /\ state_todo = {}
  /\ skipped_this_cycle = 0
  /\ total_skipped = 0
  /\ instances = EmptyMap
  /\ buffers_ = EmptyMap
  /\ completed_ = << >>
  /\ rollout_files = << >>
  /\ model_dir \in ModelDirChoices
  /\ hero_models_ = LoadedAtStartup(model_dir)
  /\ model_times_ = LoadedAtStartup(model_dir)
  /\ net_out = << >>
  /\ log_out = << >>
  /\ episode_states = EmptyMap
  /\ fn_in = << >>
  /\ fn_out = << >>

\* 1. server.recv_all(): the datagrams pending on the socket
Recv(batches, max_cycles) ==
  /\ pc = "recv"
  /\ cycles < max_cycles
  /\ \E batch \in batches : packets' = batch
  /\ pc' = "classify"
  /\ UNCHANGED << cycles, done_packets, latest_state, state_todo,
                  skipped_this_cycle, total_skipped, instances, buffers_,
                  completed_, rollout_files, hero_models_, model_times_,
                  model_dir, net_out, log_out, episode_states >>
  /\ UNCHANGED << fn_in, fn_out >>

RecvAll == Recv(Batches, MaxCycles)

RecvEpisode == Recv(EpisodeBatches, MaxEpisodeCycles)

RecvReject == Recv(RejectBatches, MaxCycles)

\* Phase 1: keep DONE + latest STATE per instance
Classify ==
  /\ pc = "classify"
  /\ LET cl == ClassifyAll(packets)
     IN  /\ done_packets' = cl.done
         /\ latest_state' = cl.latest
         /\ state_todo' = DOMAIN cl.latest
         /\ skipped_this_cycle' = cl.skipped
         /\ total_skipped' = total_skipped + cl.skipped
  /\ pc' = "done"
  /\ UNCHANGED << cycles, packets, instances, buffers_, completed_,
                  rollout_files, hero_models_, model_times_, model_dir, net_out,
                  log_out, episode_states >>
  /\ UNCHANGED << fn_in, fn_out >>

\* Phase 2 without the erase of the instance's latest STATE.
LatestKept(latest, inst_id) == latest

\* latest_state.erase(dp.inst_id)
LatestAfterDone(latest, inst_id) == MapErase(latest, inst_id)

\* Phase 2: one iteration of the loop over done_packets
ProcessDone ==
  /\ pc = "done"
  /\ done_packets # << >>
  /\ LET dp == Head(done_packets)
         known == dp.inst_id \in DOMAIN instances
         terminal_r == compute_terminal(dp.winner, dp.reason)
         marked == mark_last_done(buffers_, dp.inst_id, terminal_r)
     IN  IF dp.size < DonePacketSize
         THEN UNCHANGED << instances, buffers_, completed_, latest_state,
                           state_todo, log_out, episode_states >>
         ELSE /\ log_out' = Append(log_out,
                                   [line |-> "DONE", inst_id |-> dp.inst_id,
                                    winner |-> dp.winner, reason |-> dp.reason])
              /\ instances' = IF known THEN MapErase(instances, dp.inst_id) ELSE instances
              /\ episode_states' = IF known THEN MapErase(episode_states, dp.inst_id)
                                   ELSE episode_states
              /\ completed_' = IF known
                               THEN flush_completed(marked, completed_, dp.inst_id)
                               ELSE completed_
              /\ buffers_' = IF known THEN flush_buffers(marked, dp.inst_id) ELSE buffers_
              /\ latest_state' = LatestAfterDone(latest_state, dp.inst_id)
              /\ state_todo' = DOMAIN LatestAfterDone(latest_state, dp.inst_id)
  /\ done_packets' = Tail(done_packets)
  /\ UNCHANGED << pc, cycles, packets, skipped_this_cycle, total_skipped,
                  rollout_files, hero_models_, model_times_, model_dir, net_out >>
  /\ UNCHANGED << fn_in, fn_out >>

\* Phase 2 is over
DonesHandled ==
  /\ pc = "done"
  /\ done_packets = << >>
  /\ pc' = "state"
  /\ UNCHANGED << cycles, packets, done_packets, latest_state, state_todo,
                  skipped_this_cycle, total_skipped, instances, buffers_,
                  completed_, rollout_files, hero_models_, model_times_,
                  model_dir, net_out, log_out, episode_states >>
  /\ UNCHANGED << fn_in, fn_out >>

\* The transition main hands to writer.store for agent i.
MakeTransition(tick, pa, reward) ==
  [tick |-> tick, masks |-> pa.masks, actions |-> pa.result.actions,
   log_prob |-> pa.result.log_prob, value |-> pa.result.value,
   reward |-> reward, done |-> FALSE, hx |-> pa.input_hx]

RECURSIVE StoreLoop(_, _, _, _, _, _)
StoreLoop(i, bufs, inst_id, tick, per_agent, rewards) ==
  IF i = MAX_UNITS THEN bufs
  ELSE StoreLoop(i + 1,
                 store(bufs, inst_id, i,
                       MakeTransition(tick, per_agent[i + 1], rewards[i])),
                 inst_id, tick, per_agent, rewards)

\* inst.last_tick == 0 && header.tick > 0
NewInstance(inst, tick) == inst.last_tick = 0 /\ tick > 0

\* A server that never takes the reset branch.
NoTickReset(inst, tick) == FALSE

\* A reset test that also fires when the tick repeats.
TickResetOnRepeat(inst, tick) == inst.last_tick > 0 /\ tick <= inst.last_tick

\* inst.last_tick > 0 && header.tick < inst.last_tick
TickReset(inst, tick) == inst.last_tick > 0 /\ tick < inst.last_tick

\* A server that evaluates instances[inst_id] before it parses.
CreatedBeforeParse(insts, inst_id) ==
  IF inst_id \in DOMAIN insts THEN insts
  ELSE (inst_id :> NewInstanceState) @@ insts

\* The instances map when parse_packet failed: the loop continues before
\* instances[inst_id] is evaluated.
ParseFailed(insts, inst_id) == insts

\* A server that stores the transitions of every processed STATE.
StoreAlways(inst) == TRUE

\* if (inst.has_prev): the twelve transitions of this tick are stored
StoreWanted(inst) == inst.has_prev

\* Phase 3: one iteration of the loop over latest_state
ProcessState(inst_id) ==
  /\ pc = "state"
  /\ inst_id \in state_todo
  /\ state_todo' = state_todo \ {inst_id}
  /\ LET d == packets[latest_state[inst_id]]
         parsed == parse_packet(d)
     IN  IF ~parsed.ok
         THEN /\ log_out' = Append(log_out, [line |-> "Failed to parse STATE",
                                             inst_id |-> inst_id])
              /\ instances' = ParseFailed(instances, inst_id)
              /\ UNCHANGED << buffers_, completed_, net_out, episode_states >>
         ELSE
           LET inst0 == IF inst_id \in DOMAIN instances
                        THEN instances[inst_id] ELSE NewInstanceState
               fresh == NewInstance(inst0, parsed.tick)
               reset == ~fresh /\ TickReset(inst0, parsed.tick)
               marked == mark_last_done(buffers_, inst_id, ZeroRewards)
               bufs1 == IF reset THEN flush_buffers(marked, inst_id) ELSE buffers_
               compl1 == IF reset THEN flush_completed(marked, completed_, inst_id)
                         ELSE completed_
               inst1 == IF reset THEN NewInstanceState ELSE inst0
               rewards == compute_rewards(inst1.reward_calc, parsed.units,
                                          parsed.global, parsed.events,
                                          inst1.prev_units, inst1.prev_global,
                                          inst1.has_prev)
           IN  \E rw \in {rewards}, draw \in Draws :
                 \E inf \in {InferLoop(0, inst1.hx, << >>,
                                       [units |-> parsed.units, tick |-> parsed.tick,
                                        obs |-> encode(parsed),
                                        draws |-> DrawTable[parsed.payload],
                                        models |-> hero_models_, c |-> draw.c,
                                        fail |-> draw.fail])} :
                     /\ buffers_' =
                          IF StoreWanted(inst1)
                          THEN StoreLoop(0, bufs1, inst_id, parsed.tick,
                                         inf.per_agent, rw)
                          ELSE bufs1
                     /\ completed_' = compl1
                     /\ instances' =
                          MapPut(instances, inst_id,
                                 [hx |-> inf.hx,
                                  prev_units |-> parsed.units,
                                  prev_global |-> parsed.global,
                                  has_prev |-> TRUE,
                                  reward_calc |-> compute_state(inst1.reward_calc,
                                                                parsed.units),
                                  last_tick |-> parsed.tick])
                     /\ log_out' =
                          IF fresh
                          THEN Append(log_out, [line |-> "New instance",
                                                inst_id |-> inst_id,
                                                tick |-> parsed.tick])
                          ELSE IF reset
                          THEN Append(log_out, [line |-> "Tick reset",
                                                inst_id |-> inst_id,
                                                old_tick |-> inst0.last_tick,
                                                new_tick |-> parsed.tick])
                          ELSE log_out
                     /\ episode_states' =
                          MapPut(episode_states, inst_id,
                                 IF inst_id \in DOMAIN episode_states /\ ~reset
                                 THEN episode_states[inst_id] + 1 ELSE 1)
                     /\ net_out' = Append(net_out,
                                          send_action_packet(d.addr, parsed.tick,
                                                             inf.per_agent,
                                                             encode(parsed)))
  /\ UNCHANGED << pc, cycles, packets, done_packets, latest_state,
                  skipped_this_cycle, total_skipped, rollout_files,
                  hero_models_, model_times_, model_dir >>
  /\ UNCHANGED << fn_in, fn_out >>

\* Phase 3 is over
StatesHandled ==
  /\ pc = "state"
  /\ state_todo = {}
  /\ pc' = "periodic"
  /\ UNCHANGED << cycles, packets, done_packets, latest_state, state_todo,
                  skipped_this_cycle, total_skipped, instances, buffers_,
                  completed_, rollout_files, hero_models_, model_times_,
                  model_dir, net_out, log_out, episode_states >>
  /\ UNCHANGED << fn_in, fn_out >>

\* Periodic tasks and the end of the iteration: the reload check when its
\* interval has elapsed, maybe_dump, and the locals of the body go away.
Periodic ==
  /\ pc = "periodic"
  /\ \E due \in BOOLEAN :
       /\ hero_models_' = IF due THEN maybe_reload(hero_models_, model_times_, model_dir)
                          ELSE hero_models_
       /\ model_times_' = IF due THEN maybe_reload(model_times_, model_times_, model_dir)
                          ELSE model_times_
  /\ rollout_files' = maybe_dump_files(completed_, rollout_files, rollout_size)
  /\ completed_' = maybe_dump_completed(completed_, rollout_size)
  /\ cycles' = cycles + 1
  /\ packets' = << >>
  /\ latest_state' = EmptyMap
  /\ skipped_this_cycle' = 0
  /\ net_out' = << >>
  /\ log_out' = << >>
  /\ pc' = "recv"
  /\ UNCHANGED << done_packets, state_todo, total_skipped, instances,
                  buffers_, model_dir, episode_states >>
  /\ UNCHANGED << fn_in, fn_out >>

Next ==
  \/ RecvAll
  \/ Classify
  \/ ProcessDone
  \/ DonesHandled
  \/ \E inst_id \in IPs : ProcessState(inst_id)
  \/ StatesHandled
  \/ Periodic

Spec == Init /\ [][Next]_vars

NextEpisode ==
  \/ RecvEpisode
  \/ Classify
  \/ ProcessDone
  \/ DonesHandled
  \/ \E inst_id \in IPs : ProcessState(inst_id)
  \/ StatesHandled
  \/ Periodic

SpecEpisode == Init /\ [][NextEpisode]_vars

NextReject ==
  \/ RecvReject
  \/ Classify
  \/ ProcessDone
  \/ DonesHandled
  \/ \E inst_id \in IPs : ProcessState(inst_id)
  \/ StatesHandled
  \/ Periodic

SpecReject == Init /\ [][NextReject]_vars

\* Clients behind ephemeral source ports: the first client sends tick 1
\* from one port and tick 2 from another, the second client uses the port
\* the first one used.
EphemeralPort == 50123
StateDgFrom(ip, port, t) == [StateDg(ip, t) EXCEPT !.addr = addr_str(ip, port)]
SourcePorts == {StatePort, DonePort, EphemeralPort}
PortDatagrams ==
  {StateDgFrom(IP1, StatePort, 1), StateDgFrom(IP1, EphemeralPort, 2),
   StateDgFrom(IP2, EphemeralPort, 1), DoneDg(IP1, 1, 1)}
PortBatches == UNION {[1 .. n -> PortDatagrams] : n \in 0 .. MaxBatch}
RecvPorts == Recv(PortBatches, MaxCycles)

NextPorts ==
  \/ RecvPorts
  \/ Classify
  \/ ProcessDone
  \/ DonesHandled
  \/ \E inst_id \in IPs : ProcessState(inst_id)
  \/ StatesHandled
  \/ Periodic

SpecPorts == Init /\ [][NextPorts]_vars

\* One client whose STATEs arrive whole or with a valid header and a body
\* that stops short, at either tick; a second client and a DONE beside it.
BadBodyDatagrams ==
  {StateDg(IP1, t) : t \in Ticks} \cup {TruncDg(IP1, t) : t \in Ticks}
  \cup {StateDg(IP2, 1), DoneDg(IP1, 1, 1)}
BadBodyBatches == UNION {[1 .. n -> BadBodyDatagrams] : n \in 0 .. MaxBatch}
RecvBadBody == Recv(BadBodyBatches, MaxCycles)

NextBadBody ==
  \/ RecvBadBody
  \/ Classify
  \/ ProcessDone
  \/ DonesHandled
  \/ \E inst_id \in IPs : ProcessState(inst_id)
  \/ StatesHandled
  \/ Periodic

SpecBadBody == Init /\ [][NextBadBody]_vars

\* Two clients side by side over several cycles: in a cycle each sends
\* nothing, one STATE or its DONE.
MaxTwoCycles == 3
ClientDatagrams(ip) == {StateDg(ip, t) : t \in Ticks} \cup {DoneDg(ip, 0, 1)}
TwoClientBatches ==
  {<< >>}
  \cup {<< d >> : d \in ClientDatagrams(IP1) \cup ClientDatagrams(IP2)}
  \cup {<< d1, d2 >> : d1 \in ClientDatagrams(IP1), d2 \in ClientDatagrams(IP2)}
RecvTwo == Recv(TwoClientBatches, MaxTwoCycles)

NextTwo ==
  \/ RecvTwo
  \/ Classify
  \/ ProcessDone
  \/ DonesHandled
  \/ \E inst_id \in IPs : ProcessState(inst_id)
  \/ StatesHandled
  \/ Periodic

SpecTwo == Init /\ [][NextTwo]_vars

\* One client that sends up to two STATEs in a cycle, of ticks 1 to 3:
\* the STATE of tick 2 carries a kill event and other units than those of
\* ticks 1 and 3.
MaxSkipTick == 3
MaxSkipCycles == 2
SkipDatagrams ==
  {StateDg(IP1, t) : t \in 1 .. MaxSkipTick}
  \cup {StateDg(IP2, 1), DoneDg(IP1, 0, 1)}
SkipBatches == UNION {[1 .. n -> SkipDatagrams] : n \in 0 .. MaxBatch}
RecvSkip == Recv(SkipBatches, MaxSkipCycles)

NextSkip ==
  \/ RecvSkip
  \/ Classify
  \/ ProcessDone
  \/ DonesHandled
  \/ \E inst_id \in IPs : ProcessState(inst_id)
  \/ StatesHandled
  \/ Periodic

SpecSkip == Init /\ [][NextSkip]_vars

\* The policy files change under the running server: the file of a hero
\* is written (its mtime becomes t) or removed (t = 0).  The server looks
\* at the directory in the reload check only, so the writes since the last
\* check are taken just before the periodic tasks.
MaxMtime == 2

MaxReloadCycles == 3

TouchedHeroes == {hero_ids[3]}

\* One client that sends at most one STATE per cycle.
ReloadBatches ==
  {<< >>, << DoneDg(IP1, 1, 1) >>} \cup {<< StateDg(IP1, t) >> : t \in Ticks}

RecvReload == Recv(ReloadBatches, MaxReloadCycles)

Touch ==
  /\ pc = "periodic"
  /\ \E h \in TouchedHeroes, t \in 0 .. MaxMtime :
       /\ t # model_dir[h]
       /\ model_dir' = [model_dir EXCEPT ![h] = t]
  /\ UNCHANGED << pc, cycles, packets, done_packets, latest_state, state_todo,
                  skipped_this_cycle, total_skipped, instances, buffers_,
                  completed_, rollout_files, hero_models_, model_times_,
                  net_out, log_out, episode_states >>
  /\ UNCHANGED << fn_in, fn_out >>

NextReload ==
  \/ RecvReload
  \/ Classify
  \/ ProcessDone
  \/ DonesHandled
  \/ \E inst_id \in IPs : ProcessState(inst_id)
  \/ StatesHandled
  \/ Periodic
  \/ Touch

SpecReload == Init /\ [][NextReload]_vars

\* The same with writes that leave a file the loader rejects.
Spoil ==
  /\ pc = "periodic"
  /\ \E h \in TouchedHeroes, t \in 1 .. MaxMtime :
       /\ 0 - t # model_dir[h]
       /\ model_dir' = [model_dir EXCEPT ![h] = 0 - t]
  /\ UNCHANGED << pc, cycles, packets, done_packets, latest_state, state_todo,
                  skipped_this_cycle, total_skipped, instances, buffers_,
                  completed_, rollout_files, hero_models_, model_times_,
                  net_out, log_out, episode_states >>
  /\ UNCHANGED << fn_in, fn_out >>

NextFailedLoad ==
  \/ RecvReload
  \/ Classify
  \/ ProcessDone
  \/ DonesHandled
  \/ \E inst_id \in IPs : ProcessState(inst_id)
  \/ StatesHandled
  \/ Periodic
  \/ Touch
  \/ Spoil

SpecFailedLoad == Init /\ [][NextFailedLoad]_vars

\* ------------------------------------------------------------------
\* state_encoder::encode + encode_masks on their own
\* ------------------------------------------------------------------
\* Raw unit arrays: every unit carries the unit_target field m; the enemies
\* of an observer stand nearest-first, farthest-first or all at one
\* distance; the units at the offsets in `hidden` are hidden from four of
\* the observers,
\* those in `dead` are dead.
RawTargetMasks == {0, 1472, 5461, 8777, 10922, 16383}
Layouts == {"near_first", "far_first", "tied"}
OffsetSets == {{}, {0}, {1, 4}, {2, 3, 5}}

\* visible_mask of a hidden unit: bits 0, 3, 7 and 10 are clear.
HiddenMask == 4095 - (1 + 8 + 128 + 1024)

MaskUnit(i, m, layout, hidden, dead) ==
  LET j == i % 6
  IN  [hero_id |-> hero_ids[i + 1],
       x |-> IF layout = "tied" THEN (IF i < 6 THEN 0 ELSE 2000)
             ELSE IF layout = "near_first" THEN (IF i < 6 THEN 100 * j ELSE 1000 + 100 * j)
             ELSE (IF i < 6 THEN 100 * j ELSE 3000 - 500 * j),
       y |-> 0,
       alive |-> IF j \in dead THEN 0 ELSE 1,
       hp |-> 1000, max_hp |-> 1000, level |-> 1, skill_points |-> 0,
       mp |-> 300, max_mp |-> 500, str |-> 20, agi |-> 21, int_ |-> 22,
       atk |-> 50, def_ |-> 5, buffs |-> 5, vel_x |-> 100, vel_y |-> 0 - 50,
       visible_mask |-> IF j \in hidden THEN HiddenMask ELSE 4095,
       mask |-> MaskFields(m)]

MaskInputs ==
  {[i \in Agents |-> MaskUnit(i, m, layout, hidden, dead)] :
     m \in RawTargetMasks, layout \in Layouts,
     hidden \in OffsetSets, dead \in OffsetSets}

InitMask ==
  /\ pc = "encode"
  /\ fn_in \in MaskInputs
  /\ fn_out = << >>
  /\ cycles = 0
  /\ packets = << >>
  /\ done_packets = << >>
  /\ latest_state = EmptyMap
  /\ state_todo = {}
  /\ skipped_this_cycle = 0
  /\ total_skipped = 0
  /\ instances = EmptyMap
  /\ buffers_ = EmptyMap
  /\ completed_ = << >>
  /\ rollout_files = << >>
  /\ model_dir = [h \in HeroIdSet |-> 0]
  /\ hero_models_ = EmptyMap
  /\ model_times_ = EmptyMap
  /\ net_out = << >>
  /\ log_out = << >>
  /\ episode_states = EmptyMap

\* obs = encode(units, ...); masks = encode_masks(units, &obs.sort_map)
Encode ==
  /\ pc = "encode"
  /\ fn_out' = [i \in Agents |->
                  [sort_map |-> sorted_to_real(fn_in, i),
                   masks |-> encode_masks(fn_in, i),
                   enemy_vec |-> enemy_vec(fn_in, i, sorted_to_real(fn_in, i))]]
  /\ pc' = "encoded"
  /\ UNCHANGED << cycles, packets, done_packets, latest_state, state_todo,
                  skipped_this_cycle, total_skipped, instances, buffers_,
                  completed_, rollout_files, hero_models_, model_times_,
                  model_dir, net_out, log_out, episode_states, fn_in >>

\* send_action_packet on results whose unit_target is v, for every v the
\* head can sample: the unit_target field of each agent's record.
SampledTargets == 0 .. 13

Emit ==
  /\ pc = "encoded"
  /\ fn_out' = [i \in Agents |->
                  [sort_map |-> fn_out[i].sort_map,
                   masks |-> fn_out[i].masks,
                   enemy_vec |-> fn_out[i].enemy_vec,
                   emitted |-> [v \in SampledTargets |->
                      UnitAction(i,
                        [actions |-> [ZeroActions EXCEPT !["unit_target"] = v]],
                        fn_out[i].sort_map).sel["unit_target"]]]]
  /\ pc' = "emitted"
  /\ UNCHANGED << cycles, packets, done_packets, latest_state, state_todo,
                  skipped_this_cycle, total_skipped, instances, buffers_,
                  completed_, rollout_files, hero_models_, model_times_,
                  model_dir, net_out, log_out, episode_states, fn_in >>

NextMask == Encode \/ Emit

SpecMask == InitMask /\ [][NextMask]_vars


\* ------------------------------------------------------------------
\* state_encoder::parse_packet on packed STATE buffers
\* ------------------------------------------------------------------
ServerVars ==
  << cycles, packets, done_packets, latest_state, state_todo,
     skipped_this_cycle, total_skipped, instances, buffers_, completed_,
     rollout_files, hero_models_, model_times_, model_dir, net_out,
     log_out, episode_states >>

\* The server before its first cycle, with an empty model directory.
ServerAtStart ==
  /\ cycles = 0
  /\ packets = << >>
  /\ done_packets = << >>
  /\ latest_state = EmptyMap
  /\ state_todo = {}
  /\ skipped_this_cycle = 0
  /\ total_skipped = 0
  /\ instances = EmptyMap
  /\ buffers_ = EmptyMap
  /\ completed_ = << >>
  /\ rollout_files = << >>
  /\ model_dir = [h \in HeroIdSet |-> 0]
  /\ hero_models_ = EmptyMap
  /\ model_times_ = EmptyMap
  /\ net_out = << >>
  /\ log_out = << >>
  /\ episode_states = EmptyMap

\* ------------------------------------------------------------------
\* encode_masks as the writes it makes into the mask tensors
\* ------------------------------------------------------------------
\* The bound of the bit loop of each head: for (int b = 0; b < N; ++b)
MaskLoopBits ==
  [skill |-> 8, unit_target |-> 14, skill_levelup |-> 6, stat_upgrade |-> 10,
   attribute |-> 5, item_buy |-> 18, item_use |-> 7, seal_use |-> 7,
   faire_send |-> 6, faire_request |-> 6, faire_respond |-> 3]

\* acc[i][b] = ... of head `name` for unit i, in the order of the loop.
RowWrites(units, i, name) ==
  LET field == units[i].mask[name]
      smap == sorted_to_real(units, i)
  IN  [k \in 1 .. MaskLoopBits[name] |->
         [row |-> i, col |-> k - 1,
          v |-> IF name = "unit_target" /\ k - 1 >= 8
                THEN mask_bit(field, 8 + smap[k - 1 - 8])
                ELSE mask_bit(field, k - 1)]]

\* The writes of the loop over the twelve units into the tensor of a head.
MaskWrites(units, name) ==
  LET n == MaskLoopBits[name]
  IN  [k \in 1 .. MAX_UNITS * n |->
         RowWrites(units, (k - 1) \div n, name)[((k - 1) % n) + 1]]

\* The element an accessor<bool, 2> write lands on: the tensor is
\* (MAX_UNITS, size) and contiguous, the accessor checks no bound.
FlatIndex(w, name) == w.row * HeadSize(name) + w.col

\* The tensor after the writes: torch::ones, then the last write to every
\* element.
MaskTensor(units, name) ==
  LET writes == MaskWrites(units, name)
  IN  [cell \in 0 .. (MAX_UNITS * HeadSize(name) - 1) |->
         LET hits == {k \in DOMAIN writes : FlatIndex(writes[k], name) = cell}
         IN  IF hits = {} THEN TRUE ELSE writes[SetMax(hits)].v]

\* The writes that land behind the last element of the tensor.
Overrun(units, name) ==
  LET writes == MaskWrites(units, name)
  IN  {k \in DOMAIN writes :
         FlatIndex(writes[k], name) >= MAX_UNITS * HeadSize(name)}

\* Packed fields: the item_buy field of the even and of the odd units and
\* one pattern for the other fields.
ItemBuyFields == {0, 1, 65536, 131072, 131073, 262143}
BytePatterns == {0, 170, 255}

RowUnit(i, even, odd, pat) ==
  [MaskUnit(i, 0, "far_first", {}, {}) EXCEPT
     !.mask = [name \in HeadNames |->
                 IF name = "item_buy" THEN (IF i % 2 = 0 THEN even ELSE odd)
                 ELSE IF name \in {"unit_target", "stat_upgrade"}
                 THEN 257 * ((pat + i) % 256)
                 ELSE (pat + i) % 256]]

RowInputs ==
  {[i \in Agents |-> RowUnit(i, even, odd, pat)] :
     even \in ItemBuyFields, odd \in ItemBuyFields, pat \in BytePatterns}

InitRows ==
  /\ pc = "encode_masks"
  /\ fn_in \in RowInputs
  /\ fn_out = << >>
  /\ ServerAtStart

\* encode_masks(units, &obs.sort_map).  A write behind the tensor is
\* undefined behaviour: the call returns as if nothing had happened, or the
\* heap is damaged.
WriteMasks ==
  /\ pc = "encode_masks"
  /\ \E outcome \in {"returned", "heap damaged"} :
       /\ outcome = "heap damaged" => \E name \in HeadNames : Overrun(fn_in, name) # {}
       /\ fn_out' = [outcome |-> outcome,
                     writes |-> [name \in HeadNames |-> MaskWrites(fn_in, name)],
                     masks |-> [name \in HeadNames |-> MaskTensor(fn_in, name)]]
  /\ pc' = "masked"
  /\ UNCHANGED << ServerVars, fn_in >>

NextRows == WriteMasks

SpecRows == InitRows /\ [][NextRows]_vars

\* ------------------------------------------------------------------
\* state_encoder: world_to_grid and encode_grid
\* ------------------------------------------------------------------
MAP_MIN_X == 0 - 8416
MAP_MIN_Y == 0 - 2592
CELL_SIZE == 350
GRID_CHANNELS == 3
OBS_GRID_H == 25
OBS_GRID_W == 48

PORTALS ==
  << [x |-> 0 - 7328, y |-> 2128,     ex |-> 0 - 2048, ey |-> 7296],
     [x |-> 0 - 2288, y |-> 0 - 512,  ex |-> 0 - 8000, ey |-> 0 - 5376],
     [x |-> 0 - 2800, y |-> 0 - 208,  ex |-> 0 - 3328, ey |-> 0 - 8256],
     [x |-> 0 - 6816, y |-> 0 - 1568, ex |-> 6288,     ey |-> 0 - 6208],
     [x |-> 0 - 5920, y |-> 4800,     ex |-> 0 - 6912, ey |-> 7488],
     [x |-> 0 - 3856, y |-> 1152,     ex |-> 3072,     ey |-> 7360],
     [x |-> 6816,     y |-> 0 - 80,   ex |-> 7232,     ey |-> 9984],
     [x |-> 2576,     y |-> 5031,     ex |-> 2125,     ey |-> 5155] >>

NUM_PORTALS == Len(PORTALS)

\* static_cast<int>(a / b) for b > 0: the quotient cut towards zero.
TruncDiv(a, b) == IF a >= 0 THEN a \div b ELSE 0 - ((0 - a) \div b)

world_to_grid(x, y) ==
  LET gx == TruncDiv(x - MAP_MIN_X, CELL_SIZE)
      gy == TruncDiv(y - MAP_MIN_Y, CELL_SIZE)
  IN  [gx |-> SetMax({0, SetMin({gx, OBS_GRID_W - 1})}),
       gy |-> SetMax({0, SetMin({gy, OBS_GRID_H - 1})})]

plane_size == OBS_GRID_H * OBS_GRID_W

CellOf(x, y) == world_to_grid(x, y).gy * OBS_GRID_W + world_to_grid(x, y).gx

\* encode_grid: the elements written after the memset, as offsets from
\* `out` in floats, with what was written (values in halves; "hp" is the
\* creep's hp ratio).  pathability is the plane's fill or << >>.
encode_grid(my_team, observer_pid, units, pathability, vis_grid, creeps) ==
  {[off |-> c, v |-> pathability[1]] :
     c \in IF pathability # << >> THEN 0 .. (plane_size - 1) ELSE {}}
  \cup {[off |-> plane_size + CellOf(units[i].x, units[i].y), v |-> 2] :
          i \in {a \in Agents : units[a].alive # 0 /\ TeamOf(a) = my_team}}
  \cup {[off |-> 2 * plane_size + CellOf(units[i].x, units[i].y), v |-> 2] :
          i \in {a \in Agents : /\ units[a].alive # 0
                                /\ TeamOf(a) # my_team
                                /\ mask_bit(units[a].visible_mask, observer_pid)}}
  \cup {[off |-> 3 * plane_size + CellOf(PORTALS[p].x, PORTALS[p].y), v |-> 2] :
          p \in 1 .. NUM_PORTALS}
  \cup {[off |-> 3 * plane_size + CellOf(PORTALS[p].ex, PORTALS[p].ey), v |-> 2] :
          p \in 1 .. NUM_PORTALS}
  \cup {[off |-> 4 * plane_size + CellOf(creeps[c].x, creeps[c].y), v |-> 2] :
          c \in {k \in DOMAIN creeps : creeps[k].max_hp > 0 /\ creeps[k].hp > 0}}
  \cup {[off |-> 5 * plane_size + CellOf(creeps[c].x, creeps[c].y), v |-> "hp"] :
          c \in {k \in DOMAIN creeps : /\ creeps[k].max_hp > 0 /\ creeps[k].hp > 0
                                       /\ vis_grid # << >> /\ vis_grid[1] # 0}}

\* Where the units stand: inside the map, beyond its low corner, beyond
\* its high corner.
GridSpots == {"inside", "low", "high"}

GridUnit(i, spot) ==
  [MaskUnit(i, 0, "far_first", {1, 4}, {0}) EXCEPT
     !.x = IF spot = "inside" THEN 700 * i - 4000
           ELSE IF spot = "low" THEN MAP_MIN_X - 1 - 400 * i
           ELSE 8320 + 350 * i,
     !.y = IF spot = "inside" THEN 300 * i
           ELSE IF spot = "low" THEN MAP_MIN_Y - 1 - 400 * i
           ELSE 6176 + i]

GridCreeps ==
  {<< >>, << [x |-> 0, y |-> 0, hp |-> 50, max_hp |-> 100] >>}

GridInputs ==
  {[observer |-> i, units |-> [a \in Agents |-> GridUnit(a, spot)],
    pathability |-> path, creeps |-> creeps] :
     i \in Agents, spot \in GridSpots, path \in {<< >>, << 1 >>},
     creeps \in GridCreeps}

InitGrid ==
  /\ pc = "encode_grid"
  /\ fn_in \in GridInputs
  /\ fn_out = << >>
  /\ ServerAtStart

\* float* grid_ptr = obs.grid[i].data_ptr<float>(); encode_grid(team, i,
\* ..., grid_ptr): obs.grid is (MAX_UNITS, GRID_CHANNELS, OBS_GRID_H,
\* OBS_GRID_W).  A write behind the tensor is undefined behaviour: the call
\* returns as if nothing had happened, or the heap is damaged.
EncodeGrid ==
  /\ pc = "encode_grid"
  /\ LET i == fn_in.observer
         base == i * GRID_CHANNELS * plane_size
         writes == encode_grid(TeamOf(i), i, fn_in.units, fn_in.pathability,
                               << 1 >>, fn_in.creeps)
     IN  \E outcome \in {"returned", "heap damaged"} :
           /\ outcome = "heap damaged" =>
                \E w \in writes :
                  base + w.off >= MAX_UNITS * GRID_CHANNELS * plane_size
           /\ fn_out' = [outcome |-> outcome, base |-> base, writes |-> writes]
  /\ pc' = "gridded"
  /\ UNCHANGED << ServerVars, fn_in >>

NextGrid == EncodeGrid

SpecGrid == InitGrid /\ [][NextGrid]_vars

\* ------------------------------------------------------------------
\* state_encoder::encode + encode_masks on two raw states that differ in
\* what one observer cannot see
\* ------------------------------------------------------------------
\* What of a raw state reaches observer i: its rows of obs.enemy, of
\* obs.sort_map and of the unit_target mask, and its grid.
ObserverOutput(units, i) ==
  LET smap == sorted_to_real(units, i)
  IN  [enemy |-> enemy_vec(units, i, smap),
       sort_map |-> smap,
       unit_target |-> UnitTargetRow(units, i, smap),
       grid |-> encode_grid(TeamOf(i), i, units, << >>, << 1 >>, << >>)]

\* The enemies of observer i that are alive and whose visible_mask bit i is
\* clear.
HiddenEnemies(units, i) ==
  {u \in Agents : /\ TeamOf(u) # TeamOf(i)
                  /\ units[u].alive # 0
                  /\ ~mask_bit(units[u].visible_mask, i)}

\* Another value of the hidden fields of a unit: its vitals, its stats, its
\* velocity and buffs, its position moved by 7 (which keeps every order of
\* distances) or mirrored at x = 2000 (which reverses it).
FogVariations == {"vitals", "stats", "motion", "shifted", "mirrored"}

Vary(u, v) ==
  IF v = "vitals" THEN [u EXCEPT !.hp = 400, !.mp = 100]
  ELSE IF v = "stats"
  THEN [u EXCEPT !.str = 60, !.agi = 61, !.int_ = 62, !.atk = 90, !.def_ = 9]
  ELSE IF v = "motion"
  THEN [u EXCEPT !.vel_x = 0 - 300, !.vel_y = 20, !.buffs = 10]
  ELSE IF v = "shifted" THEN [u EXCEPT !.x = @ + 7, !.y = 7]
  ELSE [u EXCEPT !.x = 4000 - @]

FogTargetMasks == {5461, 10922, 16383}
FogObservers == {0, 1, 3, 7, 10}

FogInputs ==
  {[observer |-> i,
    variation |-> v,
    a |-> [u \in Agents |-> MaskUnit(u, m, layout, hidden, dead)],
    b |-> [u \in Agents |->
             LET unit == MaskUnit(u, m, layout, hidden, dead)
             IN  IF /\ TeamOf(u) # TeamOf(i)
                    /\ unit.alive # 0
                    /\ ~mask_bit(unit.visible_mask, i)
                 THEN Vary(unit, v) ELSE unit]] :
     i \in FogObservers, v \in FogVariations, m \in FogTargetMasks,
     layout \in Layouts, hidden \in OffsetSets, dead \in OffsetSets}

InitFog ==
  /\ pc = "encode_pair"
  /\ fn_in \in FogInputs
  /\ fn_out = << >>
  /\ ServerAtStart

\* encode and encode_masks, once on each of the two raw states
EncodePair ==
  /\ pc = "encode_pair"
  /\ fn_out' = [a |-> ObserverOutput(fn_in.a, fn_in.observer),
                b |-> ObserverOutput(fn_in.b, fn_in.observer)]
  /\ pc' = "pair_encoded"
  /\ UNCHANGED << ServerVars, fn_in >>

NextFog == EncodePair

SpecFog == InitFog /\ [][NextFog]_vars

\* The bytes of Event k of a packet: type, killer_idx, victim_idx, padding,
\* tick.
EventBytes(k, tick) ==
  ConcatAll(<< Run(1, 1 + (k % 3)), Run(1, k % 12),
               Run(1, (k + 6) % 12), Run(1, 0), PackU32(tick) >>)

CodecTicks == {0, 258, 70000}
CodecEventCounts == {0, 1, 2, MAX_EVENTS}
CodecFills == {3, 200}

\* Well-formed STATEs: the structs a client packs.
CodecState(tick, n, has_path, g, f) ==
  [header |-> [magic |-> MAGIC, version |-> PROTO_VERSION,
               msg_type |-> MSG_STATE, tick |-> tick],
   global |-> Run(GlobalStateSize, g),
   units |-> ConcatAll([i \in 1 .. MAX_UNITS |-> Run(UnitStateSize, 10 + i)]),
   num_events |-> n,
   events |-> [k \in 1 .. n |-> EventBytes(k, tick)],
   has_path |-> has_path,
   pathability |-> IF has_path = 1
                   THEN Concat(Run(GRID_CELLS - 1, 1), Run(1, f)) ELSE << >>,
   vis_t0 |-> Concat(Run(GRID_CELLS \div 2, 0), Run(GRID_CELLS \div 2, 1)),
   vis_t1 |-> Run(GRID_CELLS, f)]

CodecInputs ==
  {CodecState(tick, n, has_path, g, f) :
     tick \in CodecTicks, n \in CodecEventCounts, has_path \in {0, 1},
     g \in CodecFills, f \in CodecFills}

InitCodec ==
  /\ pc = "pack"
  /\ fn_in \in CodecInputs
  /\ fn_out = << >>
  /\ ServerAtStart

Pack ==
  /\ pc = "pack"
  /\ fn_out' = [data |-> pack_state(fn_in)]
  /\ pc' = "packed"
  /\ UNCHANGED << ServerVars, fn_in >>

Parse ==
  /\ pc = "packed"
  /\ fn_out' = [data |-> fn_out.data, parsed |-> parse_bytes(fn_out.data)]
  /\ pc' = "parsed"
  /\ UNCHANGED << ServerVars, fn_in >>

NextCodec == Pack \/ Parse

SpecCodec == InitCodec /\ [][NextCodec]_vars

\* STATEs packed with more events than parse_packet keeps.
TruncEventCounts == {MAX_EVENTS + 1, MAX_EVENTS + 2, 2 * MAX_EVENTS}

TruncInputs ==
  {CodecState(tick, n, has_path, g, f) :
     tick \in CodecTicks, n \in TruncEventCounts, has_path \in {0, 1},
     g \in CodecFills, f \in CodecFills}

InitTrunc ==
  /\ pc = "pack"
  /\ fn_in \in TruncInputs
  /\ fn_out = << >>
  /\ ServerAtStart

SpecTrunc == InitTrunc /\ [][NextCodec]_vars

\* ------------------------------------------------------------------
\* RewardCalc on its own: compute_terminal, compute and apply_zero_sum
\* applied to inputs drawn from bounded sets
\* ------------------------------------------------------------------
\* DonePacket.winner and DonePacket.reason are bytes; 0|1|2 and 1|2|3 are
\* the values the protocol names.
TerminalWinners == {0, 1, 2, 3, 255}
TerminalReasons == {0, 1, 2, 3}

TerminalInputs ==
  {[kind |-> "terminal", winner |-> w, reason |-> r] :
     w \in TerminalWinners, r \in TerminalReasons}

\* Reward vectors on a grid of 6/72000, on which a mean of six is exact.
VectorLevels == {0 - 5 * RUnit, 0 - 216, 0, 1440, 3 * RUnit}
VectorSlopes == {0, 6, 0 - 36}

VectorInputs ==
  {[kind |-> "vector",
    rewards |-> [a \in Agents |->
                   6 * ((IF a < 6 THEN p ELSE q) + (a % 3) * sl
                        + (IF a = 4 THEN p - q ELSE 0))]] :
     p \in VectorLevels, q \in VectorLevels, sl \in VectorSlopes}

\* The moves of a tick: none, 9.2 units, exactly 10 units, 50 units.
TickMoves == {<< 0, 0 >>, << 6, 7 >>, << 6, 8 >>, << 30, 40 >>}
TickHpDeltas == {0, 0 - 60, 60}
TickGameTimes == {0, 600}

\* The previous snapshot: unit 6 is wounded.
TickPrevUnit(i) == [UnitStd(i) EXCEPT !.hp = IF i = 6 THEN 900 ELSE 1000]

\* The snapshot of the tick: every unit moved by mv, unit 0 holds sp skill
\* points, the hp of unit 6 changed by dh, unit 11 is dead when dead.
TickUnit(i, mv, sp, dh, dead) ==
  [UnitStd(i) EXCEPT !.x = @ + mv[1], !.y = @ + mv[2],
                     !.skill_points = IF i = 0 THEN sp ELSE 0,
                     !.hp = IF i = 6 THEN 900 + dh ELSE 1000,
                     !.alive = IF i = 11 /\ dead THEN 0 ELSE 1]

TickInput(mv, sp, dh, dead, has_prev, has_prev_pos, n, ds, gt) ==
  [kind |-> "tick",
   rc |-> [prev_x |-> [a \in Agents |-> IF has_prev_pos THEN UnitStd(a).x ELSE 0],
           prev_y |-> [a \in Agents |-> 0],
           has_prev_pos |-> has_prev_pos],
   units |-> [i \in Agents |-> TickUnit(i, mv, sp, dh, dead)],
   global |-> [game_time |-> gt, score_team0 |-> 3 + ds, score_team1 |-> 1],
   events |-> IF n = 0 THEN << >>
              ELSE << [type |-> EVT_KILL, killer_idx |-> 0, victim_idx |-> 6] >>,
   prev_units |-> [i \in Agents |-> TickPrevUnit(i)],
   prev_global |-> [game_time |-> 0, score_team0 |-> 3, score_team1 |-> 1],
   has_prev |-> has_prev]

TickInputs ==
  {TickInput(mv, sp, dh, dead, has_prev, has_prev_pos, n, ds, gt) :
     mv \in TickMoves, sp \in {0, 2}, dh \in TickHpDeltas, dead \in BOOLEAN,
     has_prev \in BOOLEAN, has_prev_pos \in BOOLEAN, n \in {0, 1},
     ds \in {0, 1}, gt \in TickGameTimes}

InitReward ==
  /\ pc = "reward"
  /\ fn_in \in TerminalInputs \cup VectorInputs \cup TickInputs
  /\ fn_out = << >>
  /\ ServerAtStart

\* reward_calc.compute_terminal(dp.winner, dp.reason)
Terminal ==
  /\ pc = "reward"
  /\ fn_in.kind = "terminal"
  /\ fn_out' = [rewards |-> compute_terminal(fn_in.winner, fn_in.reason)]
  /\ pc' = "rewarded"
  /\ UNCHANGED << ServerVars, fn_in >>

\* reward_calc.compute(units, global, events, prev_units, prev_global,
\* has_prev)
Compute ==
  /\ pc = "reward"
  /\ fn_in.kind = "tick"
  /\ fn_out' = [rewards |-> compute_rewards(fn_in.rc, fn_in.units, fn_in.global,
                                           fn_in.events, fn_in.prev_units,
                                           fn_in.prev_global, fn_in.has_prev),
                rc |-> compute_state(fn_in.rc, fn_in.units)]
  /\ pc' = "rewarded"
  /\ UNCHANGED << ServerVars, fn_in >>

\* apply_zero_sum(rewards)
ZeroSum ==
  /\ pc = "reward"
  /\ fn_in.kind = "vector"
  /\ fn_out' = [rewards |-> apply_zero_sum(fn_in.rewards)]
  /\ pc' = "rewarded"
  /\ UNCHANGED << ServerVars, fn_in >>

NextReward == Terminal \/ Compute \/ ZeroSum

SpecReward == InitReward /\ [][NextReward]_vars

\* ------------------------------------------------------------------
\* Steps 4-6 of RewardCalc::compute on their own, in the order of the code
\* and in every other order
\* ------------------------------------------------------------------
\* rewards after step 3 -> the vector compute returns
PostProcess(rewards, game_time) ==
  apply_time_decay(apply_zero_sum(apply_team_spirit(rewards)), game_time)

StepNames == {"team_spirit", "zero_sum", "time_decay"}

ApplyStep(step, rewards, game_time) ==
  IF step = "team_spirit" THEN apply_team_spirit(rewards)
  ELSE IF step = "zero_sum" THEN apply_zero_sum(rewards)
  ELSE apply_time_decay(rewards, game_time)

\* The three steps, each once, in the order `order` names.
ApplyOrder(order, rewards, game_time) ==
  ApplyStep(order[3],
            ApplyStep(order[2], ApplyStep(order[1], rewards, game_time),
                      game_time),
            game_time)

StepOrders ==
  {o \in [1 .. 3 -> StepNames] : {o[1], o[2], o[3]} = StepNames}

\* Does `step` divide without remainder on `rewards`?  Then the integer
\* arithmetic of the model is the arithmetic of the reals.
StepExact(step, rewards, game_time) ==
  IF step = "team_spirit"
  THEN \A a \in Agents : (TeamSum(rewards, TeamOf(a)) + 6 * rewards[a]) % 12 = 0
  ELSE IF step = "zero_sum"
  THEN TeamSum(rewards, 0) % 6 = 0 /\ TeamSum(rewards, 1) % 6 = 0
  ELSE \A a \in Agents :
         (rewards[a] * 7 ^ (game_time \div 600)) % 10 ^ (game_time \div 600) = 0

OrderExact(order, rewards, game_time) ==
  LET r1 == ApplyStep(order[1], rewards, game_time)
      r2 == ApplyStep(order[2], r1, game_time)
  IN  /\ StepExact(order[1], rewards, game_time)
      /\ StepExact(order[2], r1, game_time)
      /\ StepExact(order[3], r2, game_time)

\* Raw rewards in units of 1/72000, on a grid on which every step of every
\* order is exact up to two decay intervals.
OrderUnit == 720000
OrderLevels == {0 - 2, 0, 1, 3}
OrderSlopes == {0 - 1, 0, 1}
OrderGameTimes == {0, 600, 1200}

OrderInputs ==
  {[kind |-> "order",
    rewards |-> [a \in Agents |->
                   OrderUnit * ((IF a < 6 THEN p ELSE q) + (a % 3) * sl)],
    game_time |-> gt,
    order |-> o] :
     p \in OrderLevels, q \in OrderLevels, sl \in OrderSlopes,
     gt \in OrderGameTimes, o \in StepOrders}

InitOrder ==
  /\ pc = "order"
  /\ fn_in \in OrderInputs
  /\ fn_out = << >>
  /\ ServerAtStart

\* apply_team_spirit; apply_zero_sum; apply_time_decay, and the same three
\* calls in the order fn_in.order
Reorder ==
  /\ pc = "order"
  /\ fn_out' = [in_order |-> PostProcess(fn_in.rewards, fn_in.game_time),
                reordered |-> ApplyOrder(fn_in.order, fn_in.rewards,
                                         fn_in.game_time)]
  /\ pc' = "ordered"
  /\ UNCHANGED << ServerVars, fn_in >>

NextOrder == Reorder

SpecOrder == InitOrder /\ [][NextOrder]_vars

\* ------------------------------------------------------------------
\* RolloutWriter::maybe_dump and dump_to_file, statement by statement
\* ------------------------------------------------------------------
MaxDumpEpisodes == 2

\* The keys of Transition::masks and Transition::actions of the stored
\* transitions.
DumpHeads == {"skill", "unit_target"}

\* A stored transition of episode id; episode 2 carries v2 data.
DumpTransition(id, j) ==
  [ep |-> id, step |-> j,
   masks |-> [h \in DumpHeads |-> TRUE],
   actions |-> [h \in DumpHeads |-> 0],
   events |-> << >>,
   game_time |-> IF id = 2 THEN 600 ELSE 0,
   model_version |-> 0]

\* CompletedEpisode: twelve trajectories of T transitions
DumpEpisode(id, T) ==
  [a \in Agents |-> [j \in 1 .. T |-> DumpTransition(id, j)]]

\* has_v2: some transition has events, a game time or a model version
has_v2(ep) ==
  \E a \in Agents : \E j \in DOMAIN ep[a] :
    \/ ep[a][j].events # << >>
    \/ ep[a][j].game_time # 0
    \/ ep[a][j].model_version # 0

Entry(group, name) == [group |-> group, name |-> name]

RECURSIVE SetToSeq(_)
SetToSeq(S) ==
  IF S = {} THEN << >>
  ELSE LET x == CHOOSE y \in S : TRUE IN << x >> \o SetToSeq(S \ {x})

\* The keys of the first transition of the first agent that has one, in
\* the order the map yields them (the model fixes one order).
FirstKeys(ep, field) ==
  IF \A a \in Agents : ep[a] = << >> THEN << >>
  ELSE LET a == CHOOSE x \in Agents :
                  ep[x] # << >> /\ \A y \in Agents : y < x => ep[y] = << >>
       IN  SetToSeq(DOMAIN ep[a][1][field])

\* entries: the named tensors of the container, in the order written
Entries(ep) ==
  LET mask_names == FirstKeys(ep, "masks")
      action_names == FirstKeys(ep, "actions")
  IN  (IF has_v2(ep) THEN << Entry("", "__version__") >> ELSE << >>)
      \o << Entry("", "self_vecs"), Entry("", "ally_vecs"),
            Entry("", "enemy_vecs"), Entry("", "global_vecs"),
            Entry("", "grids"), Entry("", "log_probs"), Entry("", "values"),
            Entry("", "rewards"), Entry("", "dones"), Entry("", "hx_h"),
            Entry("", "hx_c") >>
      \o [k \in 1 .. Len(mask_names) |-> Entry("mask_", mask_names[k])]
      \o [k \in 1 .. Len(action_names) |-> Entry("act_", action_names[k])]
      \o (IF has_v2(ep)
          THEN << Entry("", "events"), Entry("", "event_counts"),
                  Entry("", "prev_hp"), Entry("", "prev_max_hp"),
                  Entry("", "prev_score_t0"), Entry("", "prev_score_t1"),
                  Entry("", "game_time"), Entry("", "unit_alive"),
                  Entry("", "unit_level"), Entry("", "unit_x"),
                  Entry("", "unit_y"), Entry("", "skill_points"),
                  Entry("", "model_version") >>
          ELSE << >>)

\* A file of the rollout directory: rollout_<count>_<ms>.pt, or that name
\* with .tmp appended; ep is the episode whose data it holds, entries the
\* entries that reached it, closed whether the writing stream is closed.
DumpFile(count, ext, id, entries, closed) ==
  [count |-> count, ext |-> ext, ep |-> id, entries |-> entries,
   closed |-> closed]

\* The directory without the file of a name.
Without(files, count, ext) ==
  {f \in files : ~(f.count = count /\ f.ext = ext)}

DumpLists ==
  UNION {{[k \in 1 .. n |-> DumpEpisode(k, Ts[k])] : Ts \in [1 .. n -> {1, 2}]} :
           n \in 0 .. MaxDumpEpisodes}

DumpThresholds == {rollout_size, rollout_size + MAX_UNITS}

DumpInputs ==
  {[completed |-> c, min_transitions |-> m,
    buffers |-> IF b THEN (IP1 :> DumpEpisode(9, 2)) ELSE EmptyMap,
    dump_count |-> n,
    files |-> IF n = 0 THEN {}
              ELSE {DumpFile(0, "pt", 0, Entries(DumpEpisode(0, 1)), TRUE)}] :
     c \in DumpLists, m \in DumpThresholds, b \in BOOLEAN, n \in {0, 1}}

InitDump ==
  /\ pc = "maybe_dump"
  /\ fn_in \in DumpInputs
  /\ fn_out = [completed |-> fn_in.completed, buffers |-> fn_in.buffers,
               files |-> fn_in.files, dump_count |-> fn_in.dump_count,
               k |-> 0, written |-> 0, good |-> TRUE, outcome |-> << >>]
  /\ ServerAtStart

\* The loop of maybe_dump moves on: the next episode, or the clear.
AfterEpisode(w, result) ==
  /\ fn_out' = [w EXCEPT !.k = @ + 1, !.written = 0, !.good = TRUE,
                         !.outcome = Append(@, result)]
  /\ pc' = IF w.k + 1 > Len(w.completed) THEN "clear" ELSE "dump_to_file"

\* maybe_dump: count the transitions of completed_; return below the
\* threshold
DumpCount ==
  /\ pc = "maybe_dump"
  /\ IF TotalTransitions(fn_out.completed) < fn_in.min_transitions
     THEN pc' = "returned" /\ fn_out' = fn_out
     ELSE /\ fn_out' = [fn_out EXCEPT !.k = 1]
          /\ pc' = IF fn_out.completed = << >> THEN "clear" ELSE "dump_to_file"
  /\ UNCHANGED << ServerVars, fn_in >>

\* dump_to_file up to the ofstream constructor: T == 0 returns; the open
\* truncates the .tmp file or fails.
DumpOpen ==
  /\ pc = "dump_to_file"
  /\ IF EpisodeT(fn_out.completed[fn_out.k]) = 0
     THEN AfterEpisode(fn_out, "empty")
     ELSE \E opened \in BOOLEAN :
            IF opened
            THEN /\ fn_out' =
                      [fn_out EXCEPT !.files =
                         Without(@, fn_out.dump_count, "tmp")
                         \cup {DumpFile(fn_out.dump_count, "tmp",
                                        fn_out.completed[fn_out.k][0][1].ep,
                                        << >>, FALSE)}]
                 /\ pc' = "write"
            ELSE AfterEpisode(fn_out, "cannot open")
  /\ UNCHANGED << ServerVars, fn_in >>

\* The .tmp file after the stream wrote one more entry.
TmpWith(files, count, entry) ==
  {IF f.count = count /\ f.ext = "tmp"
   THEN [f EXCEPT !.entries = Append(@, entry)] ELSE f : f \in files}

\* The directory after fs::remove(tmppath).
RemoveTmp(files, count) == Without(files, count, "tmp")

\* One turn of the entries loop: tensor.contiguous().cpu() may throw; the
\* ofs.write calls put the entry into the file, or fail and leave the
\* stream in error, after which every write does nothing.  catch: remove
\* the .tmp file.
DumpWrite ==
  /\ pc = "write"
  /\ LET ep == fn_out.completed[fn_out.k]
         entries == Entries(ep)
     IN  \E result \in {"written", "stream error", "throws"} :
           CASE result = "throws" ->
                  AfterEpisode([fn_out EXCEPT !.files =
                                  RemoveTmp(@, fn_out.dump_count)], "failed")
             [] result = "stream error" ->
                  /\ fn_out.good
                  /\ fn_out' = [fn_out EXCEPT !.good = FALSE,
                                              !.written = @ + 1]
                  /\ pc' = IF fn_out.written + 1 = Len(entries)
                           THEN "close" ELSE "write"
             [] result = "written" ->
                  /\ fn_out' =
                       [fn_out EXCEPT
                          !.written = @ + 1,
                          !.files = IF fn_out.good
                                    THEN TmpWith(@, fn_out.dump_count,
                                                 entries[fn_out.written + 1])
                                    ELSE @]
                  /\ pc' = IF fn_out.written + 1 = Len(entries)
                           THEN "close" ELSE "write"
  /\ UNCHANGED << ServerVars, fn_in >>

\* ofs.close()
DumpClose ==
  /\ pc = "close"
  /\ fn_out' = [fn_out EXCEPT !.files =
                  {IF f.count = fn_out.dump_count /\ f.ext = "tmp"
                   THEN [f EXCEPT !.closed = TRUE] ELSE f : f \in @}]
  /\ pc' = "rename"
  /\ UNCHANGED << ServerVars, fn_in >>

\* fs::rename(tmppath, filepath); ++dump_count_, or the throw of rename
\* and the catch.
DumpRename ==
  /\ pc = "rename"
  /\ \E renamed \in BOOLEAN :
       IF renamed
       THEN AfterEpisode(
              [fn_out EXCEPT
                 !.files =
                   Without(Without(@, fn_out.dump_count, "tmp"),
                           fn_out.dump_count, "pt")
                   \cup {[f EXCEPT !.ext = "pt"] :
                           f \in {g \in fn_out.files :
                                    g.count = fn_out.dump_count /\ g.ext = "tmp"}},
                 !.dump_count = @ + 1],
              IF fn_out.good THEN "saved" ELSE "saved after stream error")
       ELSE AfterEpisode([fn_out EXCEPT !.files =
                            RemoveTmp(@, fn_out.dump_count)], "failed")
  /\ UNCHANGED << ServerVars, fn_in >>

\* completed_.clear()
DumpClear ==
  /\ pc = "clear"
  /\ fn_out' = [fn_out EXCEPT !.completed = << >>]
  /\ pc' = "returned"
  /\ UNCHANGED << ServerVars, fn_in >>

NextDump ==
  DumpCount \/ DumpOpen \/ DumpWrite \/ DumpClose \/ DumpRename \/ DumpClear

SpecDump == InitDump /\ [][NextDump]_vars

\* ------------------------------------------------------------------
\* The inference loop of Phase 3 on its own: one parsed STATE, the
\* twelve infer_hero calls, the store loop and the ACTION
\* ------------------------------------------------------------------
\* hero_models_: none, the heroes of team 0, every hero of the table.
InferModels ==
  {LoadedAtStartup(dir) : dir \in ModelDirChoices} \cup {[h \in HeroIdSet |-> 1]}

\* inst.hx_h / hx_c: no pair yet, or a pair left by an earlier tick for the
\* heroes of the table.
InferHx == {EmptyMap, [h \in HeroIdSet |-> << << 1, 0 >> >>]}

\* The forward passes that throw: none, or the one of a single agent.
InferFails == {{}} \cup {{i} : i \in Agents}

InferInputs ==
  {[payload |-> p, tick |-> 2, models |-> m, hx |-> hx, fail |-> f, c |-> c,
    has_prev |-> hp] :
     p \in PayloadNames, m \in InferModels, hx \in InferHx, f \in InferFails,
     c \in SampleChoices, hp \in BOOLEAN}

InitInfer ==
  /\ pc = "infer"
  /\ fn_in \in InferInputs
  /\ fn_out = << >>
  /\ ServerAtStart

\* for (int i = 0; i < MAX_UNITS; ++i) { ... infer_hero ... }
Infer ==
  /\ pc = "infer"
  /\ fn_out' =
       [inf |-> InferLoop(0, fn_in.hx, << >>,
                          [units |-> Payload(fn_in.payload).units,
                           tick |-> fn_in.tick,
                           obs |-> EncodeTable[fn_in.payload],
                           draws |-> DrawTable[fn_in.payload],
                           models |-> fn_in.models, c |-> fn_in.c,
                           fail |-> fn_in.fail])]
  /\ pc' = "inferred"
  /\ UNCHANGED << ServerVars, fn_in >>

\* if (inst.has_prev) writer.store(...) for the twelve agents
Store ==
  /\ pc = "inferred"
  /\ fn_out' =
       [inf |-> fn_out.inf,
        buffers |-> IF StoreWanted([has_prev |-> fn_in.has_prev])
                    THEN StoreLoop(0, EmptyMap, IP1, fn_in.tick,
                                   fn_out.inf.per_agent, ZeroRewards)
                    ELSE EmptyMap]
  /\ pc' = "stored"
  /\ UNCHANGED << ServerVars, fn_in >>

\* send_action_packet(server, addr, header.tick, results, units,
\* &obs.sort_map)
Send ==
  /\ pc = "stored"
  /\ fn_out' =
       [inf |-> fn_out.inf, buffers |-> fn_out.buffers,
        packet |-> send_action_packet(addr_str(IP1, StatePort),
                                      fn_in.tick, fn_out.inf.per_agent,
                                      EncodeTable[fn_in.payload])]
  /\ pc' = "sent"
  /\ UNCHANGED << ServerVars, fn_in >>

NextInfer == Infer \/ Store \/ Send

SpecInfer == InitInfer /\ [][NextInfer]_vars

\* ------------------------------------------------------------------
\* UdpServer::recv_all over the socket's receive queue
\* ------------------------------------------------------------------
MaxQueue == 3
MAX_UDP_PACKET == 65536

\* What waits on the socket: datagrams of two clients, of length zero, of
\* a bare header and of a DonePacket.
QueuedDatagrams ==
  {[ip |-> ip, port |-> StatePort, len |-> len] :
     ip \in IPs, len \in {0, HeaderSize, DonePacketSize}}

SocketQueues == UNION {[1 .. n -> QueuedDatagrams] : n \in 0 .. MaxQueue}

\* recvfrom(sock_, buf, MAX_UDP_PACKET, ...): takes the first datagram off
\* the queue and returns its length cut to the buffer, or -1 (EWOULDBLOCK)
\* on an empty queue
recvfrom(queue) ==
  IF queue = << >> THEN [n |-> -1, from |-> << >>, queue |-> queue]
  ELSE [n |-> IF Head(queue).len < MAX_UDP_PACKET THEN Head(queue).len
              ELSE MAX_UDP_PACKET,
        from |-> Head(queue), queue |-> Tail(queue)]

\* while (true) { n = recvfrom(...); if (n < 0) break; if (n <= 0) break;
\*                results.emplace_back(addr_str, bytes); }
RECURSIVE recv_all(_, _)
recv_all(queue, results) ==
  LET r == recvfrom(queue)
  IN  IF r.n < 0 THEN [results |-> results, queue |-> r.queue]
      ELSE IF r.n <= 0 THEN [results |-> results, queue |-> r.queue]
      ELSE recv_all(r.queue,
                    Append(results,
                           [addr |-> addr_str(r.from.ip, r.from.port),
                            len |-> r.n]))

InitDrain ==
  /\ pc = "socket"
  /\ fn_in \in SocketQueues
  /\ fn_out = << >>
  /\ ServerAtStart

\* The first call of a drain cycle
Drain ==
  /\ pc = "socket"
  /\ fn_out' = << recv_all(fn_in, << >>) >>
  /\ pc' = "drained"
  /\ UNCHANGED << ServerVars, fn_in >>

\* The call of the next cycle, on what the first left on the socket
DrainAgain ==
  /\ pc = "drained"
  /\ fn_out' = Append(fn_out, recv_all(fn_out[1].queue, << >>))
  /\ pc' = "drained again"
  /\ UNCHANGED << ServerVars, fn_in >>

NextDrain == Drain \/ DrainAgain

SpecDrain == InitDrain /\ [][NextDrain]_vars

\* ------------------------------------------------------------------
\* One drain cycle as seen when its Phase 3 is over
\* ------------------------------------------------------------------
\* What Phase 1 reads of a datagram: a full header with the protocol's
\* magic and version.
ValidHeader(d) ==
  d.len >= HeaderSize /\ d.magic = MAGIC /\ d.version = PROTO_VERSION

\* Positions in this cycle's batch of the STATE datagrams of instance ip.
StateIdx(ip) ==
  {k \in DOMAIN packets :
     /\ ValidHeader(packets[k]) /\ packets[k].msg_type = MSG_STATE
     /\ instance_key(packets[k].addr) = ip}

\* Positions of the DONE datagrams of instance ip.
DoneIdx(ip) ==
  {k \in DOMAIN packets :
     /\ ValidHeader(packets[k]) /\ packets[k].msg_type = MSG_DONE
     /\ instance_key(packets[k].addr) = ip}

\* Positions in net_out of the ACTION datagrams sent to ip in this cycle.
ActionsTo(ip) == {k \in DOMAIN net_out : net_out[k].dst.ip = ip}

LargestTick(ip) == SetMax({packets[k].tick : k \in StateIdx(ip)})

\* The STATE admission control keeps for ip: the last arrival among those
\* with the largest tick.
Selected(ip) ==
  SetMax({k \in StateIdx(ip) : packets[k].tick = LargestTick(ip)})

SkippedExpected ==
  SumOver([ip \in IPs |->
             IF StateIdx(ip) = {} THEN 0 ELSE Cardinality(StateIdx(ip)) - 1], IPs)

\* ------------------------------------------------------------------
\* C1  Admission control
\* ------------------------------------------------------------------
\* C1: in one drain cycle, if N >= 1 STATE datagrams with valid magic and
\* version arrive for an instance and no DONE for it, exactly one of them is
\* processed (the instance state carries its tick and one ACTION with that
\* tick is sent), its tick is the largest of the N, and the skipped counter
\* grows by N-1 (summed over the instances of the cycle).  Stated for the
\* cycles in which at least one of the N is a complete STATE.
C1_AdmissionControl ==
  pc = "periodic" =>
    /\ \A ip \in IPs :
         (/\ StateIdx(ip) # {} /\ DoneIdx(ip) = {}
          /\ \E k \in StateIdx(ip) : parse_packet(packets[k]).ok) =>
           /\ Cardinality(ActionsTo(ip)) = 1
           /\ \A k \in ActionsTo(ip) : net_out[k].tick = LargestTick(ip)
           /\ ip \in DOMAIN instances
           /\ instances[ip].last_tick = LargestTick(ip)
    /\ skipped_this_cycle = SkippedExpected

\* C1 as the code keeps it: the same, for the instances whose selected STATE
\* parses; a selected STATE with a truncated body is answered by nothing.
C1_WhenSelectedParses ==
  pc = "periodic" =>
    /\ \A ip \in IPs :
         (StateIdx(ip) # {} /\ DoneIdx(ip) = {}) =>
           IF parse_packet(packets[Selected(ip)]).ok
           THEN /\ Cardinality(ActionsTo(ip)) = 1
                /\ \A k \in ActionsTo(ip) : net_out[k].tick = LargestTick(ip)
                /\ ip \in DOMAIN instances
                /\ instances[ip].last_tick = LargestTick(ip)
           ELSE ActionsTo(ip) = {}
    /\ skipped_this_cycle = SkippedExpected

\* A cycle in which a complete STATE was out-ticked by a truncated one: the
\* instance got no ACTION.
C1_Witness ==
  /\ pc = "periodic"
  /\ \E ip \in IPs :
       /\ DoneIdx(ip) = {}
       /\ Cardinality(StateIdx(ip)) = 2
       /\ \E k \in StateIdx(ip) : parse_packet(packets[k]).ok
       /\ ~parse_packet(packets[Selected(ip)]).ok
       /\ ActionsTo(ip) = {}
       /\ skipped_this_cycle = 1

\* ------------------------------------------------------------------
\* C2  DONE before STATE
\* ------------------------------------------------------------------
\* Positions of the DONE datagrams of ip that hold a whole DonePacket.
CompleteDoneIdx(ip) ==
  {k \in DoneIdx(ip) : packets[k].len >= DonePacketSize}

LogLines(kind, ip) ==
  {k \in DOMAIN log_out : log_out[k].line = kind /\ log_out[k].inst_id = ip}

ProcessStep(ip) ==
  /\ pc = "state"
  /\ ip \in state_todo
  /\ ip \notin state_todo'
  /\ parse_packet(packets[latest_state[ip]]).ok

\* The step processes a STATE whose tick is below the instance's last tick.
RegressionStep(ip) ==
  /\ ProcessStep(ip)
  /\ ip \in DOMAIN instances
  /\ instances[ip].last_tick > 0
  /\ packets[latest_state[ip]].tick < instances[ip].last_tick

HasData(bufs, ip) ==
  ip \in DOMAIN bufs /\ \E a \in Agents : bufs[ip][a] # << >>

\* C3 (as the code keeps it): whenever a STATE that admission control
\* selected and that parses has a tick below the instance's last tick, the
\* server resets the episode: the buffer is flushed (as one completed
\* episode when it holds data), the line "Tick reset" is printed, and the
\* STATE is processed as the first STATE of a fresh episode: no transition
\* is stored, the LSTM pairs come from this tick alone, an ACTION with its
\* tick is sent.
C3_ProcessedRegressionResets ==
  [][\A ip \in IPs :
       RegressionStep(ip) =>
         LET tick == packets[latest_state[ip]].tick
         IN  /\ ip \notin DOMAIN buffers_'
             /\ Len(completed_') =
                  Len(completed_) + (IF HasData(buffers_, ip) THEN 1 ELSE 0)
             /\ Len(log_out') = Len(log_out) + 1
             /\ log_out'[Len(log_out')] =
                  [line |-> "Tick reset", inst_id |-> ip,
                   old_tick |-> instances[ip].last_tick, new_tick |-> tick]
             /\ ip \in DOMAIN instances'
             /\ instances'[ip].last_tick = tick
             /\ episode_states'[ip] = 1
             /\ \A h \in DOMAIN instances'[ip].hx :
                  \A n \in DOMAIN instances'[ip].hx[h] :
                    instances'[ip].hx[h][n][1] = tick
             /\ Len(net_out') = Len(net_out) + 1
             /\ net_out'[Len(net_out')].tick = tick
             /\ net_out'[Len(net_out')].dst.ip = ip
    ]_vars

\* A reset has been taken in this cycle.
C3_Witness ==
  /\ pc = "periodic"
  /\ \E ip \in IPs :
       /\ LogLines("Tick reset", ip) # {}
       /\ ip \in DOMAIN instances
       /\ episode_states[ip] = 1
       /\ ActionsTo(ip) # {}

\* C3 as claimed, for two STATEs of one drain cycle: whenever a STATE
\* arrives whose tick is below the tick of the STATE that arrived before it
\* from the same IP, no DONE of that IP in the cycle, the server resets and
\* the lower-tick STATE is processed and answered.
C3_RegressionAlwaysResets ==
  pc = "periodic" =>
    \A ip \in IPs :
      \A k \in StateIdx(ip), l \in StateIdx(ip) :
        (/\ k < l
         /\ StateIdx(ip) \cap (k + 1 .. l - 1) = {}
         /\ DoneIdx(ip) = {}
         /\ parse_packet(packets[k]).ok /\ parse_packet(packets[l]).ok
         /\ packets[l].tick < packets[k].tick) =>
          /\ \E a \in ActionsTo(ip) : net_out[a].tick = packets[l].tick
          /\ ip \in DOMAIN instances
          /\ instances[ip].last_tick = packets[l].tick

\* ------------------------------------------------------------------
\* C4  Instance lifecycle
\* ------------------------------------------------------------------
\* C4: an instance entry appears only in a step that processes a STATE of
\* its IP that parses; it disappears only in the step that handles a whole
\* DONE of its IP; a tick regression leaves the entry in place; and no other
\* step (in particular no step of a cycle without datagrams from that IP)
\* changes its LSTM pairs, previous snapshot, reward-shaper state or last
\* tick.
C4_InstanceLifecycle ==
  [][\A ip \in IPs :
       /\ (ip \notin DOMAIN instances /\ ip \in DOMAIN instances') =>
            /\ ProcessStep(ip)
            /\ instance_key(packets[latest_state[ip]].addr) = ip
       /\ (ip \in DOMAIN instances /\ ip \notin DOMAIN instances') =>
            /\ pc = "done" /\ done_packets # << >>
            /\ Head(done_packets).inst_id = ip
            /\ Head(done_packets).size >= DonePacketSize
            /\ DoneIdx(ip) # {}
       /\ (ip \in DOMAIN instances /\ ip \in DOMAIN instances'
           /\ instances'[ip] # instances[ip]) =>
            /\ ProcessStep(ip)
            /\ instance_key(packets[latest_state[ip]].addr) = ip
       /\ RegressionStep(ip) => ip \in DOMAIN instances'
    ]_vars

\* An instance has lived through a whole cycle that brought datagrams, none
\* of them from its IP.
C4_Witness ==
  /\ pc = "periodic"
  /\ packets # << >>
  /\ \E ip \in IPs :
       /\ ip \in DOMAIN instances
       /\ \A k \in DOMAIN packets : instance_key(packets[k].addr) # ip

\* ------------------------------------------------------------------
\* C5  LSTM storage
\* ------------------------------------------------------------------
\* The step processes a STATE of ip and stores its transitions.
StoreStep(ip) ==
  /\ ProcessStep(ip)
  /\ ip \in DOMAIN buffers_'
  /\ (ip \notin DOMAIN buffers_ \/ buffers_'[ip] # buffers_[ip])

\* The pair of hero h in the instance of ip, zeros when there is none.
PairOf(insts, ip, h) ==
  IF ip \in DOMAIN insts /\ h \in DOMAIN insts[ip].hx
  THEN insts[ip].hx[h] ELSE << >>

IsPrefix(s, t) == Len(s) <= Len(t) /\ SubSeq(t, 1, Len(s)) = s

\* The forward passes of this step that advanced the pair of hero h, as
\* stamps << tick, agent >>, in the order of the agents.
NewForwards(ip, h) ==
  SubSeq(PairOf(instances', ip, h), Len(PairOf(instances, ip, h)) + 1,
         Len(PairOf(instances', ip, h)))

\* C5: the pair stored in the transition of agent a at tick t is the pair
\* that went into agent a's inference at tick t: the pair the instance held
\* for a's hero id before the STATE (zeros if none), advanced only by the
\* successful forward passes of agents before a that report the same hero
\* id in this STATE; when a's own forward pass ran, the stored pair is not
\* the pair it produced.
C5_LstmStorage ==
  [][\A ip \in IPs :
       StoreStep(ip) =>
         \A a \in Agents :
           LET tr == buffers_'[ip][a][Len(buffers_'[ip][a])]
               h == instances'[ip].prev_units[a].hero_id
               pre == PairOf(instances, ip, h)
               new == NewForwards(ip, h)
               before == SelectSeq(new, LAMBDA st : st[2] < a)
               upto == SelectSeq(new, LAMBDA st : st[2] <= a)
           IN  /\ tr.tick = packets[latest_state[ip]].tick
               /\ IsPrefix(pre, PairOf(instances', ip, h))
               /\ tr.hx = pre \o before
               /\ (upto # before) => tr.hx # pre \o upto
    ]_vars

\* A transition is stored whose pair was produced by an earlier forward
\* pass and has since been advanced by the forward pass of its own tick.
C5_Witness ==
  /\ pc = "periodic"
  /\ \E ip \in DOMAIN buffers_ : \E a \in Agents :
       /\ buffers_[ip][a] # << >>
       /\ LET tr == buffers_[ip][a][Len(buffers_[ip][a])]
              h == instances[ip].prev_units[a].hero_id
          IN  /\ tr.hx # << >>
              /\ tr.tick = instances[ip].last_tick
              /\ Len(tr.hx) < Len(PairOf(instances, ip, h))

\* ------------------------------------------------------------------
\* C6  Terminal reward placement
\* ------------------------------------------------------------------
\* The step handles a whole DONE of ip.
DoneStep(ip) ==
  /\ pc = "done"
  /\ done_packets # << >>
  /\ Head(done_packets).inst_id = ip
  /\ Head(done_packets).size >= DonePacketSize

\* Exactly the last transition of a trajectory is done.
LastOnlyDone(traj) ==
  \A n \in DOMAIN traj : traj[n].done <=> (n = Len(traj))

\* Trajectory `after` is `before` with the last transition marked done and
\* r added to its reward, nothing appended.
MarkedInPlace(before, after, r) ==
  /\ Len(after) = Len(before)
  /\ \A n \in DOMAIN before :
       after[n] = IF n < Len(before) THEN before[n]
                  ELSE [before[n] EXCEPT !.done = TRUE, !.reward = @ + r]

\* C6: transitions in a buffer are never done; when a DONE (terminal
\* reward of compute_terminal) or a tick regression (zero reward) ends an
\* episode that holds data, the episode appended to the completed list has
\* the trajectories of the buffer, same lengths, the last transition of
\* each agent marked done with the agent's terminal reward added to its
\* reward; so in every completed episode exactly the last transition of
\* each agent is done.
C6_TerminalRewardPlacement ==
  /\ [](/\ \A ip \in DOMAIN buffers_ : \A a \in Agents :
             \A n \in DOMAIN buffers_[ip][a] : ~buffers_[ip][a][n].done
        /\ \A e \in DOMAIN completed_ : \A a \in Agents :
             completed_[e][a] # << >> /\ LastOnlyDone(completed_[e][a]))
  /\ [][\A ip \in IPs :
          ((DoneStep(ip) \/ RegressionStep(ip)) /\ HasData(buffers_, ip)) =>
            LET r == IF DoneStep(ip)
                     THEN compute_terminal(Head(done_packets).winner,
                                           Head(done_packets).reason)
                     ELSE ZeroRewards
            IN  /\ Len(completed_') = Len(completed_) + 1
                /\ \A a \in Agents :
                     MarkedInPlace(buffers_[ip][a],
                                   completed_'[Len(completed_')][a], r[a])
       ]_vars

\* An episode of two steps per agent was completed by a DONE that team 1
\* won: the first step is not done, the last is.
C6_Witness ==
  /\ pc = "done"
  /\ LogLines("DONE", IP1) # {}
  /\ completed_ # << >>
  /\ LET ep == completed_[Len(completed_)]
     IN  /\ Len(ep[0]) = 2
         /\ ~ep[0][1].done
         /\ ep[0][2].done
         /\ ep[0][2].reward <= lose_reward

\* ------------------------------------------------------------------
\* C7  Episode length
\* ------------------------------------------------------------------
BufLen(ip, a) == IF ip \in DOMAIN buffers_ THEN Len(buffers_[ip][a]) ELSE 0

\* C7: an instance that has processed k >= 1 STATEs in its episode holds
\* exactly k-1 transitions for each of the twelve agents; the trajectories
\* of a completed episode have one common length T >= 1; every file holds
\* T >= 1 steps; and when an episode of k STATEs ends (DONE or tick
\* regression) it adds one completed episode of length k-1 when k > 1 and
\* nothing when k = 1.
C7_EpisodeLength ==
  /\ [](/\ DOMAIN episode_states = DOMAIN instances
        /\ DOMAIN buffers_ \subseteq DOMAIN instances
        /\ \A ip \in DOMAIN instances :
             /\ episode_states[ip] >= 1
             /\ \A a \in Agents : BufLen(ip, a) = episode_states[ip] - 1
        /\ \A e \in DOMAIN completed_ :
             /\ Len(completed_[e][0]) >= 1
             /\ \A a \in Agents : Len(completed_[e][a]) = Len(completed_[e][0])
        /\ \A f \in DOMAIN rollout_files : rollout_files[f] >= 1)
  /\ [][\A ip \in DOMAIN instances :
          (DoneStep(ip) \/ RegressionStep(ip)) =>
            IF episode_states[ip] = 1
            THEN completed_' = completed_
            ELSE /\ Len(completed_') = Len(completed_) + 1
                 /\ \A a \in Agents :
                      Len(completed_'[Len(completed_')][a]) = episode_states[ip] - 1
       ]_vars

\* An episode of three processed STATEs has ended and has been written as
\* a file of two steps.
C7_Witness ==
  /\ pc = "recv"
  /\ rollout_files # << >>
  /\ rollout_files[Len(rollout_files)] = 2
  /\ IP1 \notin DOMAIN instances

\* ------------------------------------------------------------------
\* C8  Reply per processed STATE
\* ------------------------------------------------------------------
\* The STATE of ip that Phase 3 processes in this cycle: it was selected,
\* no whole DONE of ip came in the cycle, and it parses.
Answered(ip) ==
  /\ StateIdx(ip) # {}
  /\ CompleteDoneIdx(ip) = {}
  /\ parse_packet(packets[Selected(ip)]).ok

\* C8: the step that processes a selected STATE that parses sends exactly
\* one datagram: an ACTION (msg_type 2) with the tick of that STATE and
\* twelve records idx = 0..11, to the source IP of the STATE on the reply
\* port, not its source port; no other step sends anything; so at the end
\* of a cycle every instance has one ACTION if its selected STATE was
\* processed and none otherwise: skipped STATEs, STATEs removed by a DONE
\* of the cycle and STATEs that fail to parse are not answered.
C8_ReplyPerProcessedState ==
  /\ [][/\ (\A ip \in IPs :
             ProcessStep(ip) =>
               LET d == packets[latest_state[ip]]
                   act == net_out'[Len(net_out')]
               IN  /\ Len(net_out') = Len(net_out) + 1
                   /\ SubSeq(net_out', 1, Len(net_out)) = net_out
                   /\ act.msg_type = 2
                   /\ act.magic = MAGIC /\ act.version = PROTO_VERSION
                   /\ act.tick = d.tick
                   /\ act.dst.ip = extract_ip(d.addr)
                   /\ act.dst.port = send_port
                   /\ act.dst.port # port_of(d.addr)
                   /\ DOMAIN act.actions = 0 .. 11
                   /\ \A i \in 0 .. 11 : act.actions[i].idx = i)
         /\ ((\A ip \in IPs : ~ProcessStep(ip)) =>
              (net_out' = net_out \/ net_out' = << >>))
       ]_vars
  /\ [](pc = "periodic" =>
         \A ip \in IPs :
           /\ Cardinality(ActionsTo(ip)) = (IF Answered(ip) THEN 1 ELSE 0)
           /\ \A k \in ActionsTo(ip) : net_out[k].tick = packets[Selected(ip)].tick)

\* A cycle is over in which one instance sent two STATEs, one was skipped
\* and the only ACTION of the cycle went to its IP on the reply port.
C8_Witness ==
  /\ pc = "periodic"
  /\ Cardinality(StateIdx(IP1)) = 2
  /\ Cardinality(ActionsTo(IP1)) = 1
  /\ skipped_this_cycle = 1
  /\ Len(net_out) = 1
  /\ net_out[1].dst = [ip |-> IP1, port |-> send_port]

\* ------------------------------------------------------------------
\* C9  Missing artifact default
\* ------------------------------------------------------------------
ZeroRecord(rec) ==
  /\ rec.move_x = 0 /\ rec.move_y = 0 /\ rec.point_x = 0 /\ rec.point_y = 0
  /\ \A name \in HeadNames : rec.sel[name] = 0

\* C9: when a STATE is processed, every agent whose hero id has no loaded
\* module gets an ACTION record with every discrete selection 0 and
\* move = point = (0,0); the transition stored for it has these actions,
\* value 0 and log-prob 0; the LSTM pair of that hero id is what it was
\* before the STATE (zeros when it had none).  With no module loaded at all
\* the ACTION carries the tick of the STATE and twelve zero records.
C9_MissingArtifactDefault ==
  [][\A ip \in IPs :
       ProcessStep(ip) =>
         LET d == packets[latest_state[ip]]
             units == parse_packet(d).units
             act == net_out'[Len(net_out')]
         IN  /\ \A a \in Agents :
                  units[a].hero_id \notin DOMAIN hero_models_ =>
                    /\ ZeroRecord(act.actions[a])
                    /\ PairOf(instances', ip, units[a].hero_id)
                         = (IF RegressionStep(ip) THEN << >>
                            ELSE PairOf(instances, ip, units[a].hero_id))
                    /\ StoreStep(ip) =>
                         LET tr == buffers_'[ip][a][Len(buffers_'[ip][a])]
                         IN  /\ tr.actions = ZeroActions
                             /\ tr.value = 0
                             /\ tr.log_prob = 0
             /\ hero_models_ = EmptyMap =>
                  /\ act.msg_type = MSG_ACTION
                  /\ act.tick = d.tick
                  /\ \A a \in Agents : ZeroRecord(act.actions[a])
    ]_vars

\* With no module loaded a STATE has been answered by an all-zero ACTION
\* and its transitions have been stored.
C9_Witness ==
  /\ pc = "periodic"
  /\ hero_models_ = EmptyMap
  /\ Len(net_out) = 1
  /\ \A a \in Agents : ZeroRecord(net_out[1].actions[a])
  /\ IP1 \in DOMAIN buffers_
  /\ net_out[1].tick = instances[IP1].last_tick

\* ------------------------------------------------------------------
\* C10  Mask/sort consistency
\* ------------------------------------------------------------------
\* The sorted slot that holds real enemy offset j.
SlotOf(smap, j) == CHOOSE t \in 0 .. 5 : smap[t] = j

\* The raw units with every unit visible to everybody.
AllVisible(units) == [i \in Agents |-> [units[i] EXCEPT !.visible_mask = 4095]]

C11_SortMapPermutation ==
  pc = "encoded" =>
    \A i \in Agents :
      /\ DOMAIN fn_out[i].sort_map = 0 .. 5
      /\ {fn_out[i].sort_map[s] : s \in 0 .. 5} = 0 .. 5
      /\ \A s, t \in 0 .. 5 :
           fn_out[i].sort_map[s] = fn_out[i].sort_map[t] => s = t

\* A state with tied distances, dead and hidden enemies whose sort map is
\* not the identity.
C11_Witness ==
  /\ pc = "encoded"
  /\ \E i \in Agents :
       /\ \E s \in 0 .. 5 : fn_out[i].sort_map[s] # s
       /\ \E j, k \in 0 .. 5 :
            /\ j # k
            /\ fn_in[EnemyStart(i) + j].x = fn_in[EnemyStart(i) + k].x
            /\ fn_in[EnemyStart(i) + j].alive = 0
            /\ fn_in[EnemyStart(i) + k].alive = 1
            /\ ~mask_bit(fn_in[EnemyStart(i) + k].visible_mask, i)

\* ------------------------------------------------------------------
\* C12  Target remap on emit
\* ------------------------------------------------------------------
\* C12: for every agent i, a sampled unit_target v < 8 is emitted unchanged
\* and v = 8+s is emitted as 8 + sorted_to_real[i][s]; the raw mask bit of
\* the emitted enemy target equals the sorted mask entry of the sampled
\* slot, distinct slots give distinct targets, and the emitted target is
\* back in slot s under the inverse of the sort map.
C12_TargetRemapOnEmit ==
  pc = "emitted" =>
    \A i \in Agents :
      LET smap == fn_out[i].sort_map
          row == fn_out[i].masks["unit_target"]
          sent == fn_out[i].emitted
      IN  /\ \A v \in 0 .. 7 : sent[v] = v
          /\ \A t \in 0 .. 5 :
               /\ sent[8 + t] = 8 + smap[t]
               /\ mask_bit(fn_in[i].mask.unit_target, sent[8 + t]) <=> (8 + t \in row)
               /\ SlotOf(smap, sent[8 + t] - 8) = t
          /\ \A t, u \in 0 .. 5 : t # u => sent[8 + t] # sent[8 + u]

\* An agent whose allowed sampled slot is emitted as another number.
C12_Witness ==
  /\ pc = "emitted"
  /\ \E i \in Agents : \E t \in 0 .. 5 :
       /\ 8 + t \in fn_out[i].masks["unit_target"]
       /\ fn_out[i].emitted[8 + t] # 8 + t
       /\ ~mask_bit(fn_in[i].mask.unit_target, 8 + t)

\* ------------------------------------------------------------------
\* C13  Fog-of-war redaction
\* ------------------------------------------------------------------
\* The columns of the hero one-hot of an enemy vector.
HeroOneHot == 23 .. 34

\* C13: for every observer i and every enemy that is alive with bit i of
\* visible_mask clear, the enemy vector in that enemy's sorted slot is zero
\* everywhere except the alive column (22) and the hero one-hot; a dead
\* enemy's vector is zero everywhere except the hero one-hot.
C13_FogOfWarRedaction ==
  pc = "encoded" =>
    \A i \in Agents : \A j \in 0 .. 5 :
      LET eu == fn_in[EnemyStart(i) + j]
          vec == fn_out[i].enemy_vec[SlotOf(fn_out[i].sort_map, j)]
          hot == {k \in HeroOneHot : vec[k] # 0}
      IN  /\ (eu.alive # 0 /\ ~mask_bit(eu.visible_mask, i)) =>
               /\ \A k \in DOMAIN vec : k \notin HeroOneHot \cup {22} => vec[k] = 0
               /\ vec[22] = 1
               /\ hot = {23 + hero_to_idx(eu.hero_id)}
          /\ eu.alive = 0 =>
               /\ \A k \in DOMAIN vec : k \notin HeroOneHot => vec[k] = 0
               /\ hot = {23 + hero_to_idx(eu.hero_id)}

\* One observer with an alive hidden enemy, a dead enemy and a visible
\* enemy whose vector carries its data.
C13_Witness ==
  /\ pc = "encoded"
  /\ \E i \in Agents : \E j, d, v \in 0 .. 5 :
       /\ fn_in[EnemyStart(i) + j].alive = 1
       /\ ~mask_bit(fn_in[EnemyStart(i) + j].visible_mask, i)
       /\ fn_in[EnemyStart(i) + d].alive = 0
       /\ fn_out[i].enemy_vec[SlotOf(fn_out[i].sort_map, v)][0] = 1
       /\ fn_out[i].enemy_vec[SlotOf(fn_out[i].sort_map, v)][1] = 1000
       /\ fn_out[i].enemy_vec[SlotOf(fn_out[i].sort_map, j)][1] = 0

\* ------------------------------------------------------------------
\* C14  Codec round-trip
\* ------------------------------------------------------------------
\* The length of a well-formed STATE buffer.
PackedSize(st) ==
  FIXED_SIZE + st.num_events * EventSize + 1
  + (IF st.has_path = 1 THEN GRID_CELLS ELSE 0) + 2 * GRID_CELLS

\* C14: for any well-formed STATE buffer (header, global, 12 units,
\* num_events, that many events, has_pathability flag, optional
\* pathability plane, two visibility planes) parse_packet succeeds and
\* returns header, global, units, events and planes identical to the
\* packed ones.
C14_CodecRoundTrip ==
  pc = "parsed" =>
    /\ ByteLen(fn_out.data) = PackedSize(fn_in)
    /\ fn_out.parsed.ok
    /\ fn_out.parsed.header = fn_in.header
    /\ fn_out.parsed.global = fn_in.global
    /\ fn_out.parsed.units = fn_in.units
    /\ fn_out.parsed.events = fn_in.events
    /\ fn_out.parsed.pathability = fn_in.pathability
    /\ fn_out.parsed.vis_t0 = fn_in.vis_t0
    /\ fn_out.parsed.vis_t1 = fn_in.vis_t1

\* A parsed packet with the most events, a pathability plane and a tick
\* wider than two bytes.
C14_Witness ==
  /\ pc = "parsed"
  /\ fn_out.parsed.ok
  /\ Len(fn_out.parsed.events) = MAX_EVENTS
  /\ fn_out.parsed.header.tick = 70000
  /\ fn_in.has_path = 1
  /\ fn_out.parsed.pathability # << >>
  /\ fn_out.parsed.vis_t0 # fn_out.parsed.vis_t1

\* ------------------------------------------------------------------
\* C15  Rejected input changes nothing
\* ------------------------------------------------------------------
\* Dropped by the classification: shorter than the header, wrong magic or
\* version, a message type other than STATE or DONE.
BadHeader(d) ==
  ~ValidHeader(d) \/ d.msg_type \notin {MSG_STATE, MSG_DONE}

\* A STATE the classification keeps and parse_packet refuses.
Unparsable(d) ==
  ~BadHeader(d) /\ d.msg_type = MSG_STATE /\ ~parse_packet(d).ok

\* The step of Phase 3 that takes up the selected STATE of ip, which fails
\* to parse.
ParseFailStep(ip) ==
  /\ pc = "state"
  /\ ip \in state_todo
  /\ ip \notin state_todo'
  /\ Unparsable(packets[latest_state[ip]])

\* C15: a datagram that is shorter than the header, has wrong magic or
\* version or a message type other than STATE or DONE is kept by no list
\* of the classification, and the classification changes no instance, no
\* buffer and sends nothing; the step that finds a selected STATE
\* unparsable (any length shortfall) creates no instance, changes no
\* instance, no rollout buffer, no completed episode, sends no ACTION and
\* leaves the loop at the next selected STATE; at the end of the cycle
\* every ACTION answers a STATE that parsed, and every other instance's
\* parsable selected STATE has its ACTION.
C15_RejectedInputChangesNothing ==
  /\ [][(pc = "classify" /\ pc' # "classify") =>
          ( /\ UNCHANGED << instances, buffers_, completed_, net_out >>
            /\ \A k \in DOMAIN packets :
                 BadHeader(packets[k]) =>
                   /\ \A ip \in DOMAIN latest_state' : latest_state'[ip] # k
                   /\ Len(done_packets') =
                        Cardinality({j \in DOMAIN packets :
                           ~BadHeader(packets[j]) /\ packets[j].msg_type = MSG_DONE})
            /\ \A ip \in IPs :
                 StateIdx(ip) # {} =>
                   /\ ip \in DOMAIN latest_state'
                   /\ latest_state'[ip] = Selected(ip) )]_vars
  /\ [][\A ip \in IPs :
          ParseFailStep(ip) =>
            ( /\ UNCHANGED << instances, buffers_, completed_, net_out,
                              rollout_files, packets, latest_state >>
              /\ state_todo' = state_todo \ {ip}
              /\ pc' = "state" )]_vars
  /\ [](pc = "periodic" =>
         /\ \A k \in DOMAIN net_out :
              /\ Answered(net_out[k].dst.ip)
              /\ net_out[k].tick = packets[Selected(net_out[k].dst.ip)].tick
         /\ \A ip \in IPs : Answered(ip) => Cardinality(ActionsTo(ip)) = 1)

\* A cycle with a STATE of the second client that stops short and a whole
\* STATE of the first: the first is answered, the second left no instance.
C15_Witness ==
  /\ pc = "periodic"
  /\ Len(packets) = 2
  /\ Unparsable(packets[1])
  /\ packets[1].len = FIXED_SIZE - 1
  /\ instance_key(packets[1].addr) = IP2
  /\ LogLines("Failed to parse STATE", IP2) # {}
  /\ IP2 \notin DOMAIN instances
  /\ Cardinality(ActionsTo(IP1)) = 1
  /\ IP1 \in DOMAIN instances

\* C16: compute_terminal gives win_reward to the six agents of the winning
\* team and lose_reward to the six of the losing team, and on a draw or a
\* timeout (winner = 2, or reason = 2) timeout_reward to all twelve.
C16_TerminalRewardValues ==
  (pc = "rewarded" /\ fn_in.kind = "terminal") =>
    LET drawn == fn_in.winner = 2 \/ fn_in.reason = 2
    IN  /\ drawn => \A a \in Agents : fn_out.rewards[a] = timeout_reward
        /\ (~drawn /\ fn_in.winner \in {0, 1}) =>
              \A a \in Agents :
                fn_out.rewards[a] = (IF TeamOf(a) = fn_in.winner
                                     THEN win_reward ELSE lose_reward)

\* A DONE that reports a timeout and names team 0 the winner: team 0 is
\* paid win_reward, team 1 lose_reward.
C16_Witness ==
  /\ pc = "rewarded"
  /\ fn_in.kind = "terminal"
  /\ fn_in.winner = 0
  /\ fn_in.reason = 2
  /\ \A a \in Agents :
       fn_out.rewards[a] = (IF a < 6 THEN win_reward ELSE lose_reward)

\* What compute_terminal does return: the winner alone decides, and every
\* winner other than 0 and 1 is paid as a draw.
C16_WinnerAloneDecides ==
  (pc = "rewarded" /\ fn_in.kind = "terminal") =>
    \A a \in Agents :
      fn_out.rewards[a] =
        (IF fn_in.winner \in {0, 1}
         THEN (IF TeamOf(a) = fn_in.winner THEN win_reward ELSE lose_reward)
         ELSE timeout_reward)

\* The tick of fn_in has zero events, the scores of the previous tick, and
\* every alive unit at least 10 units from its previous position.
QuietTick ==
  /\ fn_in.kind = "tick"
  /\ fn_in.events = << >>
  /\ fn_in.global.score_team0 = fn_in.prev_global.score_team0
  /\ fn_in.global.score_team1 = fn_in.prev_global.score_team1
  /\ \A a \in Agents :
       (fn_in.units[a].alive # 0 /\ fn_in.rc.has_prev_pos) =>
         (fn_in.units[a].x - fn_in.rc.prev_x[a]) * (fn_in.units[a].x - fn_in.rc.prev_x[a])
         + (fn_in.units[a].y - fn_in.rc.prev_y[a]) * (fn_in.units[a].y - fn_in.rc.prev_y[a])
           >= 100

\* No alive unit holds a skill point and, when there is a previous tick,
\* no unit's hp differs from it.
NoShaping ==
  /\ \A a \in Agents :
       fn_in.units[a].alive # 0 => fn_in.units[a].skill_points = 0
  /\ fn_in.has_prev =>
       \A a \in Agents : fn_in.units[a].hp = fn_in.prev_units[a].hp

\* C17 as amended: on a tick with zero events, unchanged scores, every
\* alive unit moved at least 10 units, no alive unit holding skill points
\* and no hp changed since the previous tick, compute returns 0 for all
\* twelve agents.
C17_ZeroRewardBaseline ==
  (pc = "rewarded" /\ QuietTick /\ NoShaping) =>
    \A a \in Agents : fn_out.rewards[a] = 0

\* Every alive unit moved exactly 10 units from a known previous position,
\* a unit is dead, and all rewards are 0.
C17_Witness ==
  /\ pc = "rewarded"
  /\ QuietTick /\ NoShaping
  /\ fn_in.rc.has_prev_pos /\ fn_in.has_prev
  /\ fn_in.units[11].alive = 0
  /\ fn_in.units[0].x - fn_in.rc.prev_x[0] = 6
  /\ fn_in.units[0].y - fn_in.rc.prev_y[0] = 8
  /\ fn_out.rewards = ZeroRewards

\* C17 as stated: zero events, unchanged scores and every alive unit moved
\* at least 10 units give a reward of 0 to all twelve agents.
C17_QuietTickIsZero ==
  (pc = "rewarded" /\ QuietTick) => \A a \in Agents : fn_out.rewards[a] = 0

\* C18: after apply_zero_sum every agent holds its reward minus the mean
\* the other team had before the step, and the mean of agents 0..5 plus
\* the mean of agents 6..11 is 0 (means in sixths: six times each).
C18_ZeroSum ==
  (pc = "rewarded" /\ fn_in.kind = "vector") =>
    /\ \A a \in Agents :
         6 * fn_out.rewards[a] =
           6 * fn_in.rewards[a] - TeamSum(fn_in.rewards, 1 - TeamOf(a))
    /\ TeamSum(fn_out.rewards, 0) + TeamSum(fn_out.rewards, 1) = 0

\* A vector whose teams had different, nonzero means and whose members
\* differ: after the step the two means are opposite and not 0.
C18_Witness ==
  /\ pc = "rewarded"
  /\ fn_in.kind = "vector"
  /\ TeamSum(fn_in.rewards, 0) # 0
  /\ TeamSum(fn_in.rewards, 1) # 0
  /\ TeamSum(fn_in.rewards, 0) # TeamSum(fn_in.rewards, 1)
  /\ fn_in.rewards[0] # fn_in.rewards[1]
  /\ TeamSum(fn_out.rewards, 0) = 0 - TeamSum(fn_out.rewards, 1)
  /\ TeamSum(fn_out.rewards, 0) # 0

\* The transitions of a list of completed episodes, one by one.
TransitionsOf(compl) ==
  {<< k, a, j >> \in (DOMAIN compl) \X Agents \X (1 .. 2 * MaxDumpEpisodes) :
     j <= Len(compl[k][a])}

\* The .pt files a maybe_dump call added to the directory.
NewPtFiles == {f \in fn_out.files \ fn_in.files : f.ext = "pt"}

\* Every episode the call handed to dump_to_file was saved.
AllSaved == \A k \in DOMAIN fn_out.outcome : fn_out.outcome[k] = "saved"

\* C19: maybe_dump(min) returns without touching the completed list or
\* the directory iff the transitions of all agents of all completed
\* episodes number less than min; otherwise it hands every completed
\* episode to dump_to_file, every saved episode has a file of its own
\* holding all its entries, and the list is empty afterwards.  The
\* per-instance buffers are not counted, not written and not changed.
C19_ThresholdDump ==
  /\ fn_out.buffers = fn_in.buffers
  /\ \A f \in fn_out.files : f.ep \in 0 .. MaxDumpEpisodes
  /\ pc = "returned" =>
       IF Cardinality(TransitionsOf(fn_in.completed)) >= fn_in.min_transitions
       THEN /\ fn_out.completed = << >>
            /\ DOMAIN fn_out.outcome = DOMAIN fn_in.completed
            /\ \A k \in DOMAIN fn_in.completed :
                 fn_out.outcome[k] = "saved" =>
                   \E f \in NewPtFiles :
                     /\ f.ep = k
                     /\ f.entries = Entries(fn_in.completed[k])
                     /\ \A g \in fn_out.files :
                          (g.ext = "pt" /\ g.count = f.count) => g = f
                     /\ \A g \in NewPtFiles : g.ep = k => g = f
            /\ AllSaved =>
                 /\ Cardinality(NewPtFiles) = Len(fn_in.completed)
                 /\ Cardinality(NewPtFiles) =
                      Len(maybe_dump_files(fn_in.completed, << >>,
                                           fn_in.min_transitions))
                 /\ fn_in.files \subseteq fn_out.files
                 /\ NewPtFiles # {}
            /\ maybe_dump_completed(fn_in.completed, fn_in.min_transitions) = << >>
       ELSE /\ fn_out.completed = fn_in.completed
            /\ fn_out.files = fn_in.files
            /\ fn_out.outcome = << >>
            /\ maybe_dump_completed(fn_in.completed, fn_in.min_transitions)
                 = fn_in.completed
            /\ maybe_dump_files(fn_in.completed, << >>, fn_in.min_transitions)
                 = << >>

\* Two completed episodes of one step each reach the threshold together
\* while two steps wait in a buffer: two new files, an empty list, the
\* buffer as it was.
C19_Witness ==
  /\ pc = "returned"
  /\ Len(fn_in.completed) = 2
  /\ Cardinality(TransitionsOf(fn_in.completed)) = fn_in.min_transitions
  /\ fn_in.buffers # EmptyMap
  /\ fn_in.files # {}
  /\ AllSaved
  /\ Cardinality(NewPtFiles) = 2
  /\ fn_out.completed = << >>
  /\ fn_out.buffers = fn_in.buffers

\* The episode dump_to_file is working on, when it is.
Dumping == pc \in {"write", "close", "rename"}

\* Serialization of episode k did not go through.
NotSerialized(k) ==
  fn_out.outcome[k] \in {"failed", "cannot open", "saved after stream error"}

\* C20: a .pt file holds every entry of its episode and its stream was
\* closed; while an episode is being written its data is under the .tmp
\* name only; an episode whose serialization failed has no .pt file and
\* leaves no .tmp file; and at the return of maybe_dump every episode was
\* taken up and the completed list is empty.
C20_AtomicPersistence ==
  /\ \A f \in fn_out.files :
       f.ext = "pt" /\ f.ep # 0 =>
         f.closed /\ f.entries = Entries(fn_in.completed[f.ep])
  /\ Dumping =>
       /\ \A f \in fn_out.files : f.ext = "pt" => f.ep # fn_out.k
       /\ \E f \in fn_out.files :
            f.ext = "tmp" /\ f.ep = fn_out.k /\ f.count = fn_out.dump_count
  /\ \A k \in DOMAIN fn_out.outcome :
       NotSerialized(k) => \A f \in fn_out.files : f.ext = "pt" => f.ep # k
  /\ ~Dumping => \A f \in fn_out.files : f.ext # "tmp"
  /\ (pc = "returned" /\ fn_out.outcome # << >>) =>
       /\ DOMAIN fn_out.outcome = DOMAIN fn_in.completed
       /\ fn_out.completed = << >>

\* The stream failed while the first of two episodes was written: its
\* file is there under the .pt name with entries missing, and the second
\* episode was saved whole.
C20_Witness ==
  /\ pc = "returned"
  /\ Len(fn_out.outcome) = 2
  /\ fn_out.outcome[1] = "saved after stream error"
  /\ fn_out.outcome[2] = "saved"
  /\ \E f \in fn_out.files :
       /\ f.ext = "pt" /\ f.ep = 1 /\ f.closed
       /\ Len(f.entries) < Len(Entries(fn_in.completed[1]))
  /\ \E f \in fn_out.files :
       f.ext = "pt" /\ f.ep = 2 /\ f.entries = Entries(fn_in.completed[2])

\* The stream never failed silently in this call.
StreamGood ==
  /\ fn_out.good
  /\ \A k \in DOMAIN fn_out.outcome :
       fn_out.outcome[k] # "saved after stream error"

\* What dump_to_file does guarantee: the statement of C20 for the calls in
\* which every failure is an exception or a refused open.
C20_WhenFailureThrows == StreamGood => C20_AtomicPersistence

\* The units of the STATE of fn_in, and the pair of a hero before the tick.
InferUnits == Payload(fn_in.payload).units

HxBefore(hero_id) ==
  IF hero_id \in DOMAIN fn_in.hx THEN fn_in.hx[hero_id] ELSE << >>

\* The forward pass of agent i was run and threw.
Threw(i) ==
  i \in fn_in.fail /\ InferUnits[i].hero_id \in DOMAIN fn_in.models

\* Agent i is the only unit of the STATE that reports its hero id.
OnlyOfItsHero(i) ==
  \A j \in Agents : InferUnits[j].hero_id = InferUnits[i].hero_id => j = i

\* C21: when the forward pass of agent i throws, its result is the
\* all-zero actions with value 0 and log-prob 0 and the LSTM pair it was
\* given, its ACTION record is all zero, its stored transition carries
\* these values, and its hero's pair after the tick is the pair before the
\* tick (when no other unit reports the same hero id); every other agent
\* whose hero has a module gets the sampled result and an advanced pair;
\* the ACTION holds twelve records and, with a previous snapshot, one
\* transition per agent is stored.
C21_ForwardFailureIsolation ==
  \A i \in Agents :
    (pc = "sent" /\ Threw(i)) =>
      LET pa == fn_out.inf.per_agent
          mine == pa[i + 1]
      IN  /\ mine.result.actions = ZeroActions
          /\ mine.result.log_prob = 0
          /\ mine.result.value = 0
          /\ mine.result.new_h = mine.input_hx
          /\ OnlyOfItsHero(i) =>
               fn_out.inf.hx[InferUnits[i].hero_id]
                 = HxBefore(InferUnits[i].hero_id)
          /\ fn_out.packet.actions[i].sel = [name \in HeadNames |-> 0]
          /\ fn_out.packet.actions[i].move_x = 0
          /\ fn_out.packet.actions[i].move_y = 0
          /\ fn_out.packet.actions[i].point_x = 0
          /\ fn_out.packet.actions[i].point_y = 0
          /\ \A j \in Agents \ {i} :
               InferUnits[j].hero_id \in DOMAIN fn_in.models =>
                 /\ pa[j + 1].result.actions = DrawTable[fn_in.payload][j][fn_in.c]
                 /\ pa[j + 1].result.value = fn_in.models[InferUnits[j].hero_id]
                 /\ pa[j + 1].result.new_h =
                      ForwardHidden(pa[j + 1].input_hx, fn_in.tick, j)
                 /\ OnlyOfItsHero(j) =>
                      fn_out.inf.hx[InferUnits[j].hero_id]
                        = ForwardHidden(HxBefore(InferUnits[j].hero_id),
                                        fn_in.tick, j)
          /\ DOMAIN fn_out.packet.actions = Agents
          /\ fn_out.packet.tick = fn_in.tick
          /\ fn_in.has_prev =>
               \A a \in Agents :
                 /\ Len(fn_out.buffers[IP1][a]) = 1
                 /\ fn_out.buffers[IP1][a][1].actions = pa[a + 1].result.actions
                 /\ fn_out.buffers[IP1][a][1].value = pa[a + 1].result.value
                 /\ fn_out.buffers[IP1][a][1].log_prob = pa[a + 1].result.log_prob

\* Every hero has a module and a pair from an earlier tick; the forward
\* pass of agent 3 threw, agent 4 got high samples, twelve transitions
\* were stored.
C21_Witness ==
  /\ pc = "sent"
  /\ Threw(3)
  /\ fn_in.payload = "std"
  /\ fn_in.has_prev
  /\ fn_in.hx # EmptyMap
  /\ fn_in.c = "hi"
  /\ DOMAIN fn_in.models = HeroIdSet
  /\ fn_out.inf.hx[hero_ids[4]] = fn_in.hx[hero_ids[4]]
  /\ fn_out.inf.hx[hero_ids[5]] # fn_in.hx[hero_ids[5]]
  /\ fn_out.buffers[IP1][3][1].value = 0
  /\ fn_out.buffers[IP1][4][1].value = 1
  /\ fn_out.packet.actions[4].sel # [name \in HeadNames |-> 0]

\* The file of hero h exists with a modification time that differs from
\* the one recorded at the last load, or none is recorded.
Reloadable(h) ==
  model_dir[h] # 0
  /\ (h \notin DOMAIN model_times_ \/ model_times_[h] # model_dir[h])

\* The module or the recorded time of hero h is another after the step.
ModuleChanged(h) ==
  \/ (h \in DOMAIN hero_models_') # (h \in DOMAIN hero_models_)
  \/ (h \in DOMAIN model_times_') # (h \in DOMAIN model_times_)
  \/ h \in DOMAIN hero_models_ /\ hero_models_'[h] # hero_models_[h]
  \/ h \in DOMAIN model_times_ /\ model_times_'[h] # model_times_[h]

\* C22: a module or a recorded time changes only in the periodic step of
\* the loop, never in the step that processes a STATE, and only for a hero
\* whose file exists with a modification time other than the recorded one
\* (or none recorded); it is then the module of the file as it is, and its
\* time is recorded; a reload check loads every such hero and no other;
\* the module in service is always the one of the recorded load, and every
\* forward pass of a processed STATE is run by the module in service.
C22_HotReload ==
  /\ [][\A h \in HeroIdSet :
          ModuleChanged(h) =>
            /\ pc = "periodic" /\ pc' = "recv"
            /\ Reloadable(h)
            /\ hero_models_'[h] = model_dir[h]
            /\ model_times_'[h] = model_dir[h]
            /\ \A g \in HeroIdSet :
                 Reloadable(g) => /\ g \in DOMAIN hero_models_'
                                  /\ hero_models_'[g] = model_dir[g]]_vars
  /\ [](/\ hero_models_ = model_times_
        /\ LET after == maybe_reload(hero_models_, model_times_, model_dir)
           IN  /\ DOMAIN after = DOMAIN hero_models_ \cup {h \in HeroIdSet : Reloadable(h)}
               /\ \A h \in DOMAIN after :
                    after[h] = IF Reloadable(h) THEN model_dir[h] ELSE hero_models_[h])
  /\ [][\A ip \in IPs :
          ProcessStep(ip) =>
            /\ UNCHANGED << hero_models_, model_times_ >>
            /\ \A a \in Agents \ {0} :
                 LET h == packets[latest_state[ip]].payload IN
                 LET hero == Payload(h).units[a].hero_id
                     before == BufLen(ip, a)
                 IN  (hero \in DOMAIN hero_models_
                      /\ ip \in DOMAIN buffers_'
                      /\ Len(buffers_'[ip][a]) = before + 1) =>
                        buffers_'[ip][a][before + 1].value = hero_models_[hero]]_vars

\* The file of the third hero was rewritten between two STATEs: the
\* transition stored before carries the old module's output, the one
\* stored after the reload the new module's.
C22_Witness ==
  /\ hero_ids[3] \in DOMAIN hero_models_
  /\ hero_models_[hero_ids[3]] = 2
  /\ model_dir[hero_ids[3]] = 2
  /\ IP1 \in DOMAIN buffers_
  /\ Len(buffers_[IP1][2]) = 2
  /\ buffers_[IP1][2][1].value = 1
  /\ buffers_[IP1][2][2].value = 2
  /\ buffers_[IP1][3][2].value = 1

\* The IP the datagram came from, read off the socket address.
SourceIp(d) ==
  CHOOSE ip \in IPs : \E port \in SourcePorts : d.addr = addr_str(ip, port)

\* C23: the instance of a datagram is its source IP whatever its source
\* port: two datagrams have the same key exactly when they come from the
\* same IP; the per-cycle STATE slot, the instance state and the rollout
\* buffer are keyed by IPs only, every STATE of a batch has its IP's slot,
\* and a processed STATE updates the instance and the buffer of its IP.
C23_InstanceKeyIsIp ==
  /\ [](/\ \A k \in DOMAIN packets : instance_key(packets[k].addr) = SourceIp(packets[k])
        /\ \A k, l \in DOMAIN packets :
             (instance_key(packets[k].addr) = instance_key(packets[l].addr))
               <=> (SourceIp(packets[k]) = SourceIp(packets[l]))
        /\ DOMAIN latest_state \subseteq IPs
        /\ DOMAIN instances \subseteq IPs
        /\ DOMAIN buffers_ \subseteq IPs
        /\ DOMAIN episode_states \subseteq IPs)
  /\ [][pc = "classify" =>
          \A k \in DOMAIN packets :
            packets[k].msg_type = MSG_STATE =>
              /\ SourceIp(packets[k]) \in DOMAIN latest_state'
              /\ packets[latest_state'[SourceIp(packets[k])]].tick >= packets[k].tick]_vars
  /\ [][\A ip \in IPs :
          ProcessStep(ip) =>
            LET d == packets[latest_state[ip]]
            IN  /\ SourceIp(d) = ip
                /\ ip \in DOMAIN instances'
                /\ instances'[ip].last_tick = d.tick
                /\ \A other \in IPs \ {ip} :
                     /\ (other \in DOMAIN instances) = (other \in DOMAIN instances')
                     /\ other \in DOMAIN instances => instances'[other] = instances[other]
                     /\ (other \in DOMAIN buffers_) = (other \in DOMAIN buffers_')
                     /\ other \in DOMAIN buffers_ => buffers_'[other] = buffers_[other]]_vars

\* One batch holds two STATEs of the first client from two source ports:
\* they took one slot (the older one was skipped), one instance was
\* stepped and its buffer extended; the second client, whose STATE had
\* come from the port the first client uses now, has an instance of its own.
C23_Witness ==
  /\ pc = "periodic"
  /\ cycles = 1
  /\ packets = << StateDgFrom(IP1, StatePort, 1), StateDgFrom(IP1, EphemeralPort, 2) >>
  /\ skipped_this_cycle = 1
  /\ Len(net_out) = 1
  /\ net_out[1].tick = 2
  /\ DOMAIN instances = {IP1, IP2}
  /\ instances[IP1].last_tick = 2
  /\ instances[IP2].last_tick = 1
  /\ IP1 \in DOMAIN buffers_
  /\ Len(buffers_[IP1][0]) = 1

\* The pair recv_all returns for a queued datagram.
Received(d) == [addr |-> addr_str(d.ip, d.port), len |-> d.len]

\* C24: one call of recv_all returns, in arrival order, every datagram
\* queued on the socket at the call, the datagrams of length zero and those
\* behind them included, and leaves the socket empty.
C24_DrainCompleteness ==
  pc = "drained" =>
    /\ fn_out[1].results = [k \in 1 .. Len(fn_in) |-> Received(fn_in[k])]
    /\ fn_out[1].queue = << >>

\* A datagram of length zero waited between two others: the call returned
\* the first only, took the empty one off the socket and left the third
\* for the next call.
C24_Witness ==
  /\ pc = "drained again"
  /\ Len(fn_in) = 3
  /\ fn_in[1].len > 0 /\ fn_in[2].len = 0 /\ fn_in[3].len > 0
  /\ fn_out[1].results = << Received(fn_in[1]) >>
  /\ fn_out[1].queue = << fn_in[3] >>
  /\ fn_out[2].results = << Received(fn_in[3]) >>

\* Up to the first datagram of length zero the call returns every queued
\* datagram in arrival order; that datagram is taken off the socket and
\* returned to nobody, the ones behind it stay queued.
C24_DrainsToFirstEmpty ==
  pc = "drained" =>
    LET empty == {k \in 1 .. Len(fn_in) : fn_in[k].len = 0}
        stop == IF empty = {} THEN Len(fn_in) + 1
                ELSE CHOOSE k \in empty : \A j \in empty : k <= j
    IN  /\ fn_out[1].results = [k \in 1 .. stop - 1 |-> Received(fn_in[k])]
        /\ fn_out[1].queue = SubSeq(fn_in, stop + 1, Len(fn_in))

\* The trajectory as a reset leaves it in the completed episode: the last
\* transition done, nothing else touched.
ClosedTraj(traj) ==
  [j \in 1 .. Len(traj) |->
     IF j = Len(traj) THEN [traj[j] EXCEPT !.done = TRUE] ELSE traj[j]]

\* C25: a processed STATE whose tick is below the instance's last tick
\* flushes the stored trajectories as one completed episode, the last
\* transition of every agent done and every reward as it was stored; the
\* STATE then meets a fresh instance: no transition is stored for it, its
\* LSTM pairs come from this tick alone, the reward shaper is the one a new
\* shaper is after this tick, its raw reward has no damage, heal,
\* score-delta or idle term, and an ACTION with its tick goes to the client.
C25_ResetEffects ==
  [][\A ip \in IPs :
       RegressionStep(ip) =>
         LET d == packets[latest_state[ip]]
             parsed == parse_packet(d)
         IN  /\ IF HasData(buffers_, ip)
                THEN /\ Len(completed_') = Len(completed_) + 1
                     /\ SubSeq(completed_', 1, Len(completed_)) = completed_
                     /\ completed_'[Len(completed_')] =
                          [a \in Agents |-> ClosedTraj(buffers_[ip][a])]
                ELSE completed_' = completed_
             /\ ip \notin DOMAIN buffers_'
             /\ \A other \in DOMAIN buffers_ \ {ip} :
                  other \in DOMAIN buffers_' /\ buffers_'[other] = buffers_[other]
             /\ ip \in DOMAIN instances'
             /\ instances'[ip].last_tick = d.tick
             /\ instances'[ip].prev_units = parsed.units
             /\ instances'[ip].reward_calc = compute_state(NewRewardCalc, parsed.units)
             /\ \A h \in DOMAIN instances'[ip].hx :
                  \A n \in DOMAIN instances'[ip].hx[h] :
                    instances'[ip].hx[h][n][1] = d.tick
             /\ \A a \in Agents :
                  RawRewards(NewInstanceState.reward_calc, parsed.units,
                             parsed.global, parsed.events,
                             NewInstanceState.prev_units,
                             NewInstanceState.prev_global,
                             NewInstanceState.has_prev)[a]
                    = EventRewards(parsed.events, parsed.units, a)
                      + (IF parsed.units[a].alive # 0 /\ parsed.units[a].skill_points > 0
                         THEN skill_points_held * parsed.units[a].skill_points
                         ELSE 0)
             /\ Len(net_out') = Len(net_out) + 1
             /\ SubSeq(net_out', 1, Len(net_out)) = net_out
             /\ net_out'[Len(net_out')].msg_type = MSG_ACTION
             /\ net_out'[Len(net_out')].tick = d.tick
             /\ net_out'[Len(net_out')].dst = [ip |-> ip, port |-> send_port]
    ]_vars

\* A client stepped twice and then sent a lower tick: the episode of one
\* step lies completed with its last transitions done, the buffer is gone,
\* the instance stands at the lower tick and the ACTION is out.
C25_Witness ==
  /\ pc = "periodic"
  /\ LogLines("Tick reset", IP1) # {}
  /\ Len(completed_) = 1
  /\ \A a \in Agents :
       /\ Len(completed_[1][a]) = 1
       /\ completed_[1][a][1].done
  /\ IP1 \in DOMAIN instances
  /\ instances[IP1].last_tick = 1
  /\ IP1 \notin DOMAIN buffers_
  /\ ActionsTo(IP1) # {}

\* C26: a STATE packed with more than 32 events, then the has_pathability
\* flag and the planes, parses; the parse returns the first 32 events and
\* the pathability and visibility planes as they were packed.
C26_EventTruncationKeepsAlignment ==
  pc = "parsed" =>
    /\ fn_out.parsed.ok
    /\ fn_out.parsed.events = SubSeq(fn_in.events, 1, MAX_EVENTS)
    /\ fn_out.parsed.pathability = fn_in.pathability
    /\ fn_out.parsed.vis_t0 = fn_in.vis_t0
    /\ fn_out.parsed.vis_t1 = fn_in.vis_t1

\* A STATE of 33 events with a pathability plane parsed: the first 32
\* events came back, and the planes were read 8 bytes early, out of the
\* bytes of event 33.
C26_Witness ==
  /\ pc = "parsed"
  /\ fn_in.num_events = MAX_EVENTS + 1
  /\ fn_in.has_path = 1
  /\ fn_out.parsed.ok
  /\ fn_out.parsed.events = SubSeq(fn_in.events, 1, MAX_EVENTS)
  /\ fn_out.parsed.pathability =
       Slice(fn_out.data, FIXED_SIZE + MAX_EVENTS * EventSize + 1, GRID_CELLS)
  /\ fn_out.parsed.pathability # fn_in.pathability
  /\ fn_out.parsed.vis_t1 # fn_in.vis_t1

\* What does hold past the cap: the events returned are the first 32, and
\* the flag is the byte that follows event 32 in the buffer.
C26_ReadsAfterTheCap ==
  (pc = "parsed" /\ fn_out.parsed.ok) =>
    /\ fn_out.parsed.events = SubSeq(fn_in.events, 1, MAX_EVENTS)
    /\ (fn_out.parsed.pathability # << >>)
         = (ByteAt(fn_out.data, FIXED_SIZE + MAX_EVENTS * EventSize) # 0)

\* The forward pass of agent i sampled its actions: a module is loaded for
\* its hero and forward did not throw.
Sampled(i) ==
  /\ InferUnits[i].hero_id \in DOMAIN fn_in.models
  /\ i \notin fn_in.fail

\* C27: for every agent and every discrete head the selection of the tick,
\* as the inference loop returns it and as the transition stores it, is an
\* option whose entry in the agent's mask row is true, whether it was
\* sampled or is the default of a missing module or of a failed forward
\* pass, rows without a true entry included.
C27_SelectionsRespectMasks ==
  /\ pc \in {"inferred", "stored", "sent"} =>
       \A i \in Agents, name \in HeadNames :
         fn_out.inf.per_agent[i + 1].result.actions[name]
           \in fn_out.inf.per_agent[i + 1].masks[name]
  /\ (pc \in {"stored", "sent"} /\ fn_in.has_prev) =>
       \A i \in Agents, name \in HeadNames :
         fn_out.buffers[IP1][i][1].actions[name]
           \in fn_out.buffers[IP1][i][1].masks[name]

\* No module was loaded for the hero of agent 6, whose unit_target row has
\* true entries but none at column 0: the default 0 was stored for it,
\* while agent 0 sampled a true entry of its row.
C27_Witness ==
  /\ pc = "stored"
  /\ fn_in.has_prev
  /\ InferUnits[6].hero_id \notin DOMAIN fn_in.models
  /\ fn_out.inf.per_agent[7].masks["unit_target"] # {}
  /\ 0 \notin fn_out.inf.per_agent[7].masks["unit_target"]
  /\ fn_out.buffers[IP1][6][1].actions["unit_target"] = 0
  /\ Sampled(0)
  /\ fn_out.buffers[IP1][0][1].actions["unit_target"]
       \in fn_out.buffers[IP1][0][1].masks["unit_target"]

\* Agent 3 has a module and a unit_target row without a true entry: a
\* column was sampled for it all the same.
C27_EmptyRowSampled ==
  /\ pc = "stored"
  /\ fn_in.has_prev
  /\ Sampled(3)
  /\ fn_out.inf.per_agent[4].masks["unit_target"] = {}
  /\ fn_out.buffers[IP1][3][1].actions["unit_target"] \in 0 .. 13

\* Where the selection was sampled and the row has a true entry, the
\* selection is one of the row's true entries.
C27_SampledFromNonEmptyRow ==
  pc \in {"inferred", "stored", "sent"} =>
    \A i \in Agents, name \in HeadNames :
      (Sampled(i) /\ fn_out.inf.per_agent[i + 1].masks[name] # {}) =>
        fn_out.inf.per_agent[i + 1].result.actions[name]
          \in fn_out.inf.per_agent[i + 1].masks[name]

\* The sort tuple of the enemy at real offset j as observer i sees it:
\* rank, squared distance, real offset.
SortTuple(units, i, j) ==
  LET eu == units[EnemyStart(i) + j]
      seen == (eu.visible_mask \div (2 ^ i)) % 2 = 1
  IN  << IF eu.alive # 0 /\ seen THEN 0 ELSE IF eu.alive # 0 THEN 1 ELSE 2,
         (eu.x - units[i].x) * (eu.x - units[i].x)
           + (eu.y - units[i].y) * (eu.y - units[i].y),
         j >>

TupleBefore(a, b) ==
  \/ a[1] < b[1]
  \/ a[1] = b[1] /\ a[2] < b[2]
  \/ a[1] = b[1] /\ a[2] = b[2] /\ a[3] < b[3]

\* C28: for every observer the six enemy slots are in ascending order of
\* (rank, squared distance, real offset): alive and visible enemies first,
\* then alive and hidden ones, then dead ones, nearer before farther, the
\* lower real offset first among equals.
C28_EnemySortOrder ==
  pc \in {"encoded", "emitted"} =>
    \A i \in Agents :
      \A s, t \in 0 .. 5 :
        s < t => TupleBefore(SortTuple(fn_in, i, fn_out[i].sort_map[s]),
                             SortTuple(fn_in, i, fn_out[i].sort_map[t]))

\* Observer 0 faces enemies of all three ranks, the one at real offset 0
\* dead, and two of them in a tie of rank and distance; its slots are not
\* in real order.
C28_Witness ==
  /\ pc = "encoded"
  /\ \A r \in 0 .. 2 : \E j \in 0 .. 5 : SortTuple(fn_in, 0, j)[1] = r
  /\ SortTuple(fn_in, 0, 0)[1] = 2
  /\ \E j, k \in 0 .. 5 :
       /\ j # k
       /\ SortTuple(fn_in, 0, j)[1] = SortTuple(fn_in, 0, k)[1]
       /\ SortTuple(fn_in, 0, j)[2] = SortTuple(fn_in, 0, k)[2]
  /\ fn_out[0].sort_map # [s \in 0 .. 5 |-> s]

\* C29: in every mask tensor the entry of agent i at column b below the
\* head's arity is bit b of the agent's packed field (columns 8..13 of
\* unit_target excepted), and encode_masks writes at no column at or above
\* the arity and nowhere outside the (12 x arity) matrix.
C29_MaskRowsSizedByArity ==
  pc = "masked" =>
    \A name \in HeadNames :
      /\ \A i \in Agents, b \in 0 .. (HeadSize(name) - 1) :
           (name = "unit_target" /\ b >= 8)
           \/ fn_out.masks[name][i * HeadSize(name) + b]
                = ((fn_in[i].mask[name] \div (2 ^ b)) % 2 = 1)
      /\ \A k \in DOMAIN fn_out.writes[name] :
           /\ fn_out.writes[name][k].col < HeadSize(name)
           /\ FlatIndex(fn_out.writes[name][k], name) < MAX_UNITS * HeadSize(name)

\* The item_buy loop wrote bit 17 of unit 3 at column 17 of a row of 17
\* columns, which is column 0 of unit 4, and bit 17 of unit 11 behind the
\* last element of the tensor.
C29_Witness ==
  /\ pc = "masked"
  /\ \E k \in DOMAIN fn_out.writes["item_buy"] :
       LET w == fn_out.writes["item_buy"][k]
       IN  /\ w.row = 3 /\ w.col = 17 /\ w.v
           /\ FlatIndex(w, "item_buy") = 4 * HeadSize("item_buy")
  /\ \E k \in DOMAIN fn_out.writes["item_buy"] :
       LET w == fn_out.writes["item_buy"][k]
       IN  /\ w.row = 11 /\ w.col = 17
           /\ FlatIndex(w, "item_buy") = MAX_UNITS * HeadSize("item_buy")

\* What the tensors hold when the call returns: every entry below the
\* arity is the bit of the packed field, as MaskRow has it, and the writes
\* of every head but item_buy stay inside their rows.
C29_EntriesAreTheBits ==
  pc = "masked" =>
    \A name \in HeadNames :
      /\ \A i \in Agents :
           {b \in 0 .. (HeadSize(name) - 1) :
              fn_out.masks[name][i * HeadSize(name) + b]}
             = MaskRow(fn_in, i, name, sorted_to_real(fn_in, i))
      /\ name # "item_buy" =>
           \A k \in DOMAIN fn_out.writes[name] :
             fn_out.writes[name][k].col < HeadSize(name)

\* The cell a unit's marker has to be in: its position clamped to the
\* grid.
ClampedCell(u) ==
  LET gx == (u.x - MAP_MIN_X) \div CELL_SIZE
      gy == (u.y - MAP_MIN_Y) \div CELL_SIZE
      cx == IF gx < 0 THEN 0 ELSE IF gx > 47 THEN 47 ELSE gx
      cy == IF gy < 0 THEN 0 ELSE IF gy > 24 THEN 24 ELSE gy
  IN  cy * 48 + cx

\* C30: the grid encoder writes only into channels 0..2 of the observer's
\* own 3x25x48 grid, channel 1 at the cells of the alive units of the
\* observer's team and channel 2 at the cells of the alive enemies visible
\* to the observer, every position clamped to 0 <= gx <= 47 and
\* 0 <= gy <= 24; no write lands in another observer's grid or outside the
\* (12,3,25,48) tensor.
C30_GridWritesStayInChannels ==
  pc = "gridded" =>
    LET i == fn_in.observer
        units == fn_in.units
    IN  /\ \A w \in fn_out.writes :
             /\ w.off >= 0
             /\ w.off < 3 * 25 * 48
             /\ fn_out.base + w.off < 12 * 3 * 25 * 48
        /\ {w.off - 1200 : w \in {x \in fn_out.writes : x.off \div 1200 = 1}}
             = {ClampedCell(units[a]) :
                  a \in {b \in Agents : units[b].alive # 0 /\ TeamOf(b) = TeamOf(i)}}
        /\ {w.off - 2400 : w \in {x \in fn_out.writes : x.off \div 1200 = 2}}
             = {ClampedCell(units[a]) :
                  a \in {b \in Agents : /\ units[b].alive # 0
                                        /\ TeamOf(b) # TeamOf(i)
                                        /\ (units[b].visible_mask \div (2 ^ i)) % 2 = 1}}
        /\ \A a \in Agents :
             /\ world_to_grid(units[a].x, units[a].y).gx \in 0 .. 47
             /\ world_to_grid(units[a].x, units[a].y).gy \in 0 .. 24

\* Observer 3 wrote the portal markers into what is channel 0 of observer
\* 4's grid, with its own units, standing beyond the map's corner, marked
\* in the corner cell of channel 1.
C30_Witness ==
  /\ pc = "gridded"
  /\ fn_in.observer = 3
  /\ fn_in.units[3].x > 8320
  /\ [off |-> plane_size + 24 * 48 + 47, v |-> 2] \in fn_out.writes
  /\ \E w \in fn_out.writes :
       /\ w.off \div plane_size = 3
       /\ (fn_out.base + w.off) \div (GRID_CHANNELS * plane_size) = 4

\* The last observer's portal markers land behind the tensor.
C30_LastObserverOverruns ==
  /\ pc = "gridded"
  /\ fn_in.observer = 11
  /\ \E w \in fn_out.writes :
       fn_out.base + w.off >= MAX_UNITS * GRID_CHANNELS * plane_size

\* What does hold: the unit markers are in channels 1 and 2 of the
\* observer's grid, at the clamped cells.
C30_UnitMarkersStayInside ==
  pc = "gridded" =>
    \A a \in Agents :
      /\ world_to_grid(fn_in.units[a].x, fn_in.units[a].y).gx \in 0 .. 47
      /\ world_to_grid(fn_in.units[a].x, fn_in.units[a].y).gy \in 0 .. 24
      /\ CellOf(fn_in.units[a].x, fn_in.units[a].y) = ClampedCell(fn_in.units[a])

\* ------------------------------------------------------------------
\* C31 (as amended): compute applies team spirit, then zero-sum, then time
\* decay; on rewards on which the three steps are exact, the same three
\* steps applied in any other order return the same final vector.
C31_StepsCommute ==
  pc = "ordered" =>
    /\ OrderExact(fn_in.order, fn_in.rewards, fn_in.game_time)
    /\ OrderExact(<< "team_spirit", "zero_sum", "time_decay" >>,
                  fn_in.rewards, fn_in.game_time)
    /\ fn_out.in_order
         = apply_time_decay(apply_zero_sum(apply_team_spirit(fn_in.rewards)),
                            fn_in.game_time)
    /\ fn_out.reordered = fn_out.in_order

\* C31 witness: the steps ran with time decay first and team spirit last,
\* two decay intervals into the game, on a vector that each of the three
\* steps changes, and the result is not the zero vector.
C31_Witness ==
  /\ pc = "ordered"
  /\ fn_in.order = << "time_decay", "zero_sum", "team_spirit" >>
  /\ fn_in.game_time = 1200
  /\ \A step \in StepNames :
       ApplyStep(step, fn_in.rewards, fn_in.game_time) # fn_in.rewards
  /\ \E a \in Agents : fn_out.reordered[a] # 0
  /\ \E a \in Agents : fn_out.reordered[a] # fn_in.rewards[a]

\* C31 as stated: the order is significant, there is a raw reward vector
\* and a game time (the one at hand or any other of the inputs) for which
\* another order of the three steps returns a different final vector.
C31_OrderIsSignificant ==
  \E in \in {fn_in} \cup OrderInputs :
    ApplyOrder(in.order, in.rewards, in.game_time)
      # PostProcess(in.rewards, in.game_time)

\* ------------------------------------------------------------------
\* The two raw states differ at most in the hidden fields of alive enemies
\* of observer i whose visible_mask bit i is clear.
HiddenFieldsOnly(a, b, i) ==
  \A u \in Agents :
    IF u \in HiddenEnemies(a, i)
    THEN [b[u] EXCEPT !.x = 0, !.y = 0, !.hp = 0, !.max_hp = 0, !.mp = 0,
                      !.max_mp = 0, !.str = 0, !.agi = 0, !.int_ = 0,
                      !.atk = 0, !.def_ = 0, !.buffs = 0, !.vel_x = 0,
                      !.vel_y = 0]
         = [a[u] EXCEPT !.x = 0, !.y = 0, !.hp = 0, !.max_hp = 0, !.mp = 0,
                        !.max_mp = 0, !.str = 0, !.agi = 0, !.int_ = 0,
                        !.atk = 0, !.def_ = 0, !.buffs = 0, !.vel_x = 0,
                        !.vel_y = 0]
    ELSE b[u] = a[u]

\* C32: two raw states that differ only in hidden fields of alive enemies
\* the observer cannot see give the observer the same enemy matrix, the
\* same sort map row, the same unit_target mask row and the same grid.
C32_FogNoninterference ==
  (pc = "pair_encoded" /\ HiddenFieldsOnly(fn_in.a, fn_in.b, fn_in.observer)) =>
    /\ fn_out.b.enemy = fn_out.a.enemy
    /\ fn_out.b.sort_map = fn_out.a.sort_map
    /\ fn_out.b.unit_target = fn_out.a.unit_target
    /\ fn_out.b.grid = fn_out.a.grid

\* C32 witness: both states were encoded for an observer with two alive
\* enemies it cannot see; the states differ in the positions of those
\* enemies only, and their rows changed places in the sort map, in the
\* enemy matrix and in the mask row.
C32_Witness ==
  /\ pc = "pair_encoded"
  /\ HiddenFieldsOnly(fn_in.a, fn_in.b, fn_in.observer)
  /\ Cardinality(HiddenEnemies(fn_in.a, fn_in.observer)) >= 2
  /\ fn_in.b # fn_in.a
  /\ fn_out.b.sort_map # fn_out.a.sort_map
  /\ fn_out.b.enemy # fn_out.a.enemy
  /\ fn_out.b.unit_target # fn_out.a.unit_target

\* What does hold: the grid never depends on a hidden enemy, and as long as
\* the hidden enemies keep the order of their distances to the observer
\* (any change but "mirrored", or fewer than two hidden enemies) all four
\* outputs are equal.
C32_SameOrderSameOutput ==
  (pc = "pair_encoded" /\ HiddenFieldsOnly(fn_in.a, fn_in.b, fn_in.observer)) =>
    /\ fn_out.b.grid = fn_out.a.grid
    /\ (\/ fn_in.variation # "mirrored"
        \/ Cardinality(HiddenEnemies(fn_in.a, fn_in.observer)) < 2)
       => fn_out.b = fn_out.a

\* ------------------------------------------------------------------
\* Positions of the STATE datagrams of instance ip that parse.
WholeIdx(ip) == {k \in StateIdx(ip) : parse_packet(packets[k]).ok}

\* The STATE at position k was processed and answered: the instance's last
\* tick is its tick and an ACTION with that tick went to the instance.
ProcessedAndAnswered(ip, k) ==
  /\ ip \in DOMAIN instances
  /\ instances[ip].last_tick = packets[k].tick
  /\ \E a \in ActionsTo(ip) : net_out[a].tick = packets[k].tick

\* C33: at the end of every cycle in which a well-formed STATE arrived for
\* an instance and no DONE for it, that STATE or a well-formed one that is
\* not older has been processed and the instance has an ACTION, whatever
\* truncated STATEs of the instance arrived in the cycle.
C33_ReplyDespiteBadDatagram ==
  pc = "periodic" =>
    \A ip \in IPs :
      DoneIdx(ip) = {} =>
        \A k \in WholeIdx(ip) :
          \E n \in WholeIdx(ip) :
            /\ packets[n].tick >= packets[k].tick
            /\ ProcessedAndAnswered(ip, n)

\* C33 witness: the first cycle is over; a well-formed STATE of tick 1 and
\* a truncated STATE of tick 2 arrived for one instance, no DONE; the parse
\* failure is logged, no ACTION was sent and the instance does not exist.
C33_Witness ==
  /\ pc = "periodic"
  /\ cycles = 0
  /\ packets = << StateDg(IP1, 1), TruncDg(IP1, 2) >>
  /\ WholeIdx(IP1) = {1}
  /\ Selected(IP1) = 2
  /\ \E l \in DOMAIN log_out : log_out[l].line = "Failed to parse STATE"
  /\ net_out = << >>
  /\ IP1 \notin DOMAIN instances

\* What does hold: the reply is lost only to a truncated STATE that the
\* selection prefers, one whose header tick is larger than that of every
\* well-formed STATE of the cycle, or equal and arrived later; any other
\* truncated STATE does no harm.
C33_ReplyUnlessBadIsNewest ==
  pc = "periodic" =>
    \A ip \in IPs :
      (DoneIdx(ip) = {} /\ WholeIdx(ip) # {}) =>
        IF Selected(ip) \in WholeIdx(ip)
        THEN ProcessedAndAnswered(ip, Selected(ip))
        ELSE /\ ActionsTo(ip) = {}
             /\ \A k \in WholeIdx(ip) :
                  \/ packets[k].tick < packets[Selected(ip)].tick
                  \/ packets[k].tick = packets[Selected(ip)].tick /\ k < Selected(ip)

\* A truncated STATE older than the well-formed one did no harm.
C33_OlderBadIsHarmless ==
  /\ pc = "periodic"
  /\ packets = << StateDg(IP1, 2), TruncDg(IP1, 1) >>
  /\ ProcessedAndAnswered(IP1, 1)

\* ------------------------------------------------------------------
\* The step handles the DONE at the head of done_packets, of instance ip.
DoneStepOf(ip) ==
  /\ pc = "done"
  /\ done_packets # << >>
  /\ Head(done_packets).inst_id = ip
  /\ done_packets' = Tail(done_packets)

\* The step is the iteration of phase 3 for instance ip, parsed or not.
StateStepOf(ip) ==
  /\ pc = "state"
  /\ ip \in state_todo
  /\ ip \notin state_todo'

\* map[key] is the same before and after the step, absent or present.
SameEntry(before, after, key) ==
  /\ (key \in DOMAIN after) = (key \in DOMAIN before)
  /\ key \in DOMAIN before => after[key] = before[key]

\* traj is `from` with nothing but the done flag and the reward of its last
\* transition touched.
MarkedCopy(traj, from) ==
  /\ Len(traj) = Len(from)
  /\ \A k \in 1 .. Len(from) :
       IF k < Len(from) THEN traj[k] = from[k]
       ELSE [traj[k] EXCEPT !.done = FALSE, !.reward = 0]
            = [from[k] EXCEPT !.done = FALSE, !.reward = 0]

\* C34: a step that processes a STATE or a DONE of instance A leaves the
\* InstanceState (LSTM pairs, previous snapshot, last tick, reward shaper)
\* and the rollout buffer of every other instance B as they were; what it
\* stores goes to A's buffer only, and an episode it completes is made of
\* A's buffered trajectories and of nothing else.
C34_CrossInstanceIsolation ==
  [][\A A \in IPs :
       (DoneStepOf(A) \/ StateStepOf(A)) =>
         /\ \A B \in IPs \ {A} :
              /\ SameEntry(instances, instances', B)
              /\ SameEntry(buffers_, buffers_', B)
         /\ \/ completed_' = completed_
            \/ /\ Len(completed_') = Len(completed_) + 1
               /\ SubSeq(completed_', 1, Len(completed_)) = completed_
               /\ A \in DOMAIN buffers_
               /\ \A a \in Agents :
                    MarkedCopy(completed_'[Len(completed_')][a], buffers_[A][a])
         /\ A \in DOMAIN buffers_' =>
              \A a \in Agents :
                LET old == IF A \in DOMAIN buffers_ THEN buffers_[A][a] ELSE << >>
                IN  \/ buffers_'[A][a] = old
                    \/ /\ Len(buffers_'[A][a]) = Len(old) + 1
                       /\ SubSeq(buffers_'[A][a], 1, Len(old)) = old
                       /\ StateStepOf(A)
                       /\ buffers_'[A][a][Len(old) + 1].tick
                            = packets[latest_state[A]].tick
    ]_vars

\* C34 witness: the first client's episode was completed by its DONE while
\* the second client is in the middle of its own: the completed episode
\* holds the first client's transition, marked done, and the second
\* client's instance state and buffered transition are in place.
C34_Witness ==
  /\ pc = "state"
  /\ Len(completed_) = 1
  /\ Len(completed_[1][0]) = 1
  /\ completed_[1][0][1].done
  /\ IP1 \notin DOMAIN buffers_
  /\ IP1 \notin DOMAIN instances
  /\ IP2 \in DOMAIN instances
  /\ instances[IP2].has_prev
  /\ IP2 \in DOMAIN buffers_
  /\ Len(buffers_[IP2][0]) >= 1
  /\ ~buffers_[IP2][0][1].done

\* ------------------------------------------------------------------
\* The InstanceState the step starts from: the one of the map, or a fresh
\* one, or a fresh one after a tick reset.
StartOf(ip, tick) ==
  LET inst0 == IF ip \in DOMAIN instances THEN instances[ip] ELSE NewInstanceState
  IN  IF ~NewInstance(inst0, tick) /\ TickReset(inst0, tick)
      THEN NewInstanceState ELSE inst0

EqualTickStep(ip) ==
  /\ ProcessStep(ip)
  /\ ip \in DOMAIN instances
  /\ instances[ip].last_tick > 0
  /\ packets[latest_state[ip]].tick = instances[ip].last_tick

\* C36: a STATE whose tick equals the instance's last processed tick is an
\* ordinary step.  No reset: nothing is logged, no trajectory is marked done
\* and no episode is completed.  One ACTION with that tick goes to the
\* instance.  The previous snapshot exists, so every agent's trajectory
\* grows by one open transition of that tick, after the ones it held.  The
\* LSTM pairs are carried on, none starts over, and each forward pass that
\* ran (the stored value is the module's) advanced the pair of its hero.
C36_EqualTickIsOrdinaryStep ==
  [][\A ip \in IPs :
       EqualTickStep(ip) =>
         LET d == packets[latest_state[ip]]
             act == net_out'[Len(net_out')]
         IN  /\ log_out' = log_out
             /\ completed_' = completed_
             /\ Len(net_out') = Len(net_out) + 1
             /\ act.msg_type = MSG_ACTION
             /\ act.tick = d.tick
             /\ act.dst.ip = ip
             /\ instances[ip].has_prev
             /\ instances'[ip].has_prev
             /\ instances'[ip].last_tick = d.tick
             /\ ip \in DOMAIN buffers_'
             /\ \A a \in Agents :
                  LET old == IF ip \in DOMAIN buffers_ THEN buffers_[ip][a] ELSE << >>
                      tr == buffers_'[ip][a][Len(old) + 1]
                      h == Payload(d.payload).units[a].hero_id
                  IN  /\ Len(buffers_'[ip][a]) = Len(old) + 1
                      /\ SubSeq(buffers_'[ip][a], 1, Len(old)) = old
                      /\ tr.tick = d.tick
                      /\ ~tr.done
                      /\ IsPrefix(PairOf(instances, ip, h), PairOf(instances', ip, h))
                      /\ tr.value # 0 =>
                           \E k \in DOMAIN NewForwards(ip, h) :
                             NewForwards(ip, h)[k] = << d.tick, a >>
    ]_vars

\* C36 witness: the third cycle brought the STATE of tick 1 for the third
\* time: the instance is at tick 1, agent 0 holds two open transitions of
\* tick 1, no episode was completed, the ACTION of this cycle is out, and
\* the LSTM pair of a hero has been advanced in each of the three cycles.
C36_Witness ==
  /\ pc = "periodic"
  /\ cycles = 2
  /\ packets = << StateDg(IP1, 1) >>
  /\ IP1 \in DOMAIN instances
  /\ instances[IP1].last_tick = 1
  /\ IP1 \in DOMAIN buffers_
  /\ Len(buffers_[IP1][0]) = 2
  /\ \A k \in 1 .. 2 : buffers_[IP1][0][k].tick = 1 /\ ~buffers_[IP1][0][k].done
  /\ completed_ = << >>
  /\ Len(net_out) = 1
  /\ net_out[1].tick = 1
  /\ \E h \in DOMAIN instances[IP1].hx :
       /\ Len(instances[IP1].hx[h]) = 3
       /\ \A k \in 1 .. 3 : instances[IP1].hx[h][k][1] = 1

\* ------------------------------------------------------------------
\* The reload check would call load_hero_model for hero h and the load
\* would fail.
FailingLoad(h) ==
  h \in ReloadSet(model_times_, model_dir) /\ ~FileLoads(model_dir[h])

\* C37: a load that fails changes nothing: as long as the file of a hero
\* is one the loader rejects, or is missing, the module in service and the
\* recorded time of the hero stay as they are, so a failing load stays due
\* at every later reload check while the file is the same; the reload
\* check calls the loader for every due hero, takes the module and the time
\* of each file that loads and leaves the others alone; and no step ever
\* removes a loaded module or a recorded time.
C37_FailedReloadKeepsOldModel ==
  /\ [][\A h \in HeroIdSet :
          /\ h \in DOMAIN hero_models_ => h \in DOMAIN hero_models_'
          /\ h \in DOMAIN model_times_ => h \in DOMAIN model_times_'
          /\ ~FileLoads(model_dir[h]) =>
               /\ SameEntry(hero_models_, hero_models_', h)
               /\ SameEntry(model_times_, model_times_', h)
          /\ (FailingLoad(h) /\ model_dir'[h] = model_dir[h]) =>
               h \in ReloadSet(model_times_', model_dir')]_vars
  /\ [][(pc = "periodic" /\ pc' = "recv") =>
          \/ UNCHANGED << hero_models_, model_times_ >>
          \/ /\ hero_models_' = maybe_reload(hero_models_, model_times_, model_dir)
             /\ model_times_' = maybe_reload(model_times_, model_times_, model_dir)]_vars
  /\ [](LET after == maybe_reload(hero_models_, model_times_, model_dir)
        IN  \A h \in HeroIdSet :
              IF h \in ReloadSet(model_times_, model_dir) /\ FileLoads(model_dir[h])
              THEN h \in DOMAIN after /\ after[h] = FileMtime(model_dir[h])
              ELSE SameEntry(hero_models_, after, h))

\* C37 witness: two cycles and their periodic tasks are over; the file of
\* the third hero, loaded at startup with mtime 1, is now a file of mtime 2
\* that does not load: the module of mtime 1 is in service, the recorded
\* time is 1, the load is due, and the transition stored for that hero
\* carries the output of the old module.
C37_Witness ==
  /\ cycles = 2
  /\ model_dir[hero_ids[3]] = 0 - 2
  /\ hero_ids[3] \in DOMAIN hero_models_
  /\ hero_models_[hero_ids[3]] = 1
  /\ model_times_[hero_ids[3]] = 1
  /\ FailingLoad(hero_ids[3])
  /\ IP1 \in DOMAIN buffers_
  /\ Len(buffers_[IP1][2]) = 1
  /\ buffers_[IP1][2][1].value = 1

\* The file of a loaded hero is gone and its module is still in service.
C37_FileGoneModuleKept ==
  /\ cycles = 2
  /\ model_dir[hero_ids[3]] = 0
  /\ hero_ids[3] \in DOMAIN hero_models_
  /\ hero_models_[hero_ids[3]] = 1

\* A file that loads replaced one that did not: the retry succeeded.
C37_RetrySucceeded ==
  /\ cycles = 2
  /\ model_dir[hero_ids[3]] = 2
  /\ hero_ids[3] \in DOMAIN hero_models_
  /\ hero_models_[hero_ids[3]] = 2
  /\ model_times_[hero_ids[3]] = 2

\* ------------------------------------------------------------------
\* C38  The stored unit_target action is in sorted coordinates
\* ------------------------------------------------------------------
\* The transition of agent a stored by the step, and the record of agent a
\* in the ACTION the step sends.
StoredBy(ip, a) == buffers_'[ip][a][Len(buffers_'[ip][a])]

EmittedBy(a) == net_out'[Len(net_out')].actions[a]

\* The forward pass of the transition ran: its value is the module's.
ForwardRan(tr) == tr.value # 0

\* C38: for every transition a STATE stores, the unit_target mask is the
\* row encode_masks built with the sort map of that STATE; the unit_target
\* action is the value the head sampled from that row (a true column of it
\* when the forward pass ran and the row has one), so a stored value 8 + s
\* names the enemy in sorted slot s, whose real offset sort_map[s] is the
\* bit set in the unit's packed mask; the ACTION of the same step carries
\* 8 + sort_map[s] instead, the stored value is not rewritten to it, and
\* values below 8 are the same in both.
C38_StoredActionIsSorted ==
  [][\A ip \in IPs :
       StoreStep(ip) =>
         LET parsed == parse_packet(packets[latest_state[ip]])
             obs == encode(parsed)
         IN  \A a \in Agents :
               LET tr == StoredBy(ip, a)
                   v == tr.actions["unit_target"]
                   row == tr.masks["unit_target"]
                   smap == obs[a].sort_map
                   sent == EmittedBy(a).sel["unit_target"]
               IN  /\ row = obs[a].masks["unit_target"]
                   /\ ForwardRan(tr) =>
                        \E c \in SampleChoices :
                          v = sample_categorical(row, HeadSize("unit_target"), c)
                   /\ (ForwardRan(tr) /\ row # {}) => v \in row
                   /\ ~ForwardRan(tr) => v = 0
                   /\ (v >= 8 /\ v <= 13) =>
                        /\ sent = 8 + smap[v - 8]
                        /\ v \in row =>
                             mask_bit(parsed.units[a].mask.unit_target, sent)
                        /\ smap[v - 8] # v - 8 => v # sent
                   /\ v < 8 => sent = v
    ]_vars

\* A stored transition holds an enemy target 8 + s whose sorted slot s is
\* not the enemy's real offset, a true column of its stored mask; the
\* ACTION sent for that STATE names the same enemy by its real offset, and
\* the real-offset value is not a true column of the stored mask.
C38_Witness ==
  /\ pc = "periodic"
  /\ IP1 \in DOMAIN buffers_
  /\ net_out # << >>
  /\ \E a \in Agents :
       /\ buffers_[IP1][a] # << >>
       /\ LET tr == buffers_[IP1][a][Len(buffers_[IP1][a])]
              v == tr.actions["unit_target"]
              act == net_out[Len(net_out)]
              smap == sorted_to_real(instances[IP1].prev_units, a)
          IN  /\ ForwardRan(tr)
              /\ tr.tick = act.tick
              /\ tr.tick = instances[IP1].last_tick
              /\ v >= 8
              /\ v \in tr.masks["unit_target"]
              /\ act.actions[a].sel["unit_target"] = 8 + smap[v - 8]
              /\ act.actions[a].sel["unit_target"] # v
              /\ act.actions[a].sel["unit_target"] \notin tr.masks["unit_target"]

====
